---------------------------- MODULE Spec2Model ----------------------------
(***************************************************************************)
(* Conversational search compiler of immocloud/frontend-llm                *)
(* (src/api/search.py, src/api/main.py).                                   *)
(*                                                                         *)
(* Text is modelled character by character: a Python str is a sequence of  *)
(* one-character strings, so that lower(), strip(), substring tests and    *)
(* the doc-id concatenation are computed, not assumed.  A character        *)
(* outside ASCII is written "U+hhhh".  A JSON value is a tagged record.    *)
(***************************************************************************)
EXTENDS Integers, Sequences, FiniteSets, TLC

(***************************************************************************)
(* Python str operations                                                   *)
(***************************************************************************)
UpperAZ == <<"A","B","C","D","E","F","G","H","I","J","K","L","M",
             "N","O","P","Q","R","S","T","U","V","W","X","Y","Z">>
LowerAZ == <<"a","b","c","d","e","f","g","h","i","j","k","l","m",
             "n","o","p","q","r","s","t","u","v","w","x","y","z">>
Digits  == <<"0","1","2","3","4","5","6","7","8","9">>

IsUpper(c) == \E i \in 1..26 : UpperAZ[i] = c
IsLower(c) == \E i \in 1..26 : LowerAZ[i] = c
IsDigit(c) == \E i \in 1..10 : Digits[i] = c
IsSpace(c) == c \in {" ", "\t", "\n", "\r"}

LowerChar(c) == IF IsUpper(c) THEN LowerAZ[CHOOSE i \in 1..26 : UpperAZ[i] = c] ELSE c
UpperChar(c) == IF IsLower(c) THEN UpperAZ[CHOOSE i \in 1..26 : LowerAZ[i] = c] ELSE c
DigitVal(c)  == (CHOOSE i \in 1..10 : Digits[i] = c) - 1

\* str.lower()
Lower(s) == [i \in 1..Len(s) |-> LowerChar(s[i])]

\* str.title(): a cased character is upper-cased after an uncased one, lower-cased otherwise
Title(s) ==
    [i \in 1..Len(s) |->
        IF i = 1 \/ ~(IsUpper(s[i-1]) \/ IsLower(s[i-1]))
        THEN UpperChar(s[i]) ELSE LowerChar(s[i])]

\* str.strip()
Strip(s) ==
    LET idx == {i \in 1..Len(s) : ~IsSpace(s[i])}
    IN  IF idx = {} THEN <<>>
        ELSE LET lo == CHOOSE i \in idx : \A j \in idx : i <= j
                 hi == CHOOSE i \in idx : \A j \in idx : i >= j
             IN  SubSeq(s, lo, hi)

\* sub in s
Contains(s, sub) ==
    \E i \in 0..(Len(s) - Len(sub)) : SubSeq(s, i + 1, i + Len(sub)) = sub

\* unicodedata.normalize('NFD', c): the base character of a precomposed letter
\* (the combining mark that follows it has category Mn and is dropped)
NFDBase(c) ==
    CASE c = "U+0103" -> "a"      \* a breve
      [] c = "U+00E2" -> "a"      \* a circumflex
      [] c = "U+00EE" -> "i"      \* i circumflex
      [] c = "U+0219" -> "s"      \* s comma below
      [] c = "U+021B" -> "t"      \* t comma below
      [] c = "U+00C4" -> "A"      \* A diaeresis
      [] c = "U+00C8" -> "E"      \* E grave
      [] c = "U+00C3" -> "A"      \* A tilde
      [] OTHER -> c

\* strip_diacritics(text): falsy text is returned as is
strip_diacritics(text) == [i \in 1..Len(text) |-> NFDBase(text[i])]

\* the value of a run of decimal digits
RECURSIVE DigitsVal(_)
DigitsVal(s) ==
    IF Len(s) = 0 THEN 0
    ELSE 10 * DigitsVal(SubSeq(s, 1, Len(s) - 1)) + DigitVal(s[Len(s)])

\* int(str): surrounding whitespace, an optional sign, then decimal digits
IsIntLiteral(s) ==
    LET t == Strip(s)
        u == IF Len(t) > 0 /\ t[1] \in {"+", "-"} THEN Tail(t) ELSE t
    IN  Len(u) > 0 /\ \A i \in 1..Len(u) : IsDigit(u[i])

IntLiteral(s) ==
    LET t == Strip(s)
    IN  IF t[1] = "-" THEN 0 - DigitsVal(Tail(t))
        ELSE IF t[1] = "+" THEN DigitsVal(Tail(t))
        ELSE DigitsVal(t)

(***************************************************************************)
(* JSON values (what json.loads returns)                                   *)
(***************************************************************************)
Null       == [k |-> "null"]
JBool(b)   == [k |-> "bool", b |-> b]
JInt(n)    == [k |-> "int", n |-> n]
JFloat(t)  == [k |-> "float", tenths |-> t]       \* the number t/10
JStr(s)    == [k |-> "str", s |-> s]
JList(l)   == [k |-> "list", items |-> l]
JDict(d)   == [k |-> "dict", d |-> d]

IsNull(v)  == v.k = "null"
IsStr(v)   == v.k = "str"
IsDict(v)  == v.k = "dict"
IsList(v)  == v.k = "list"

\* Python truthiness
Truthy(v) ==
    CASE v.k = "null"  -> FALSE
      [] v.k = "bool"  -> v.b
      [] v.k = "int"   -> v.n # 0
      [] v.k = "float" -> v.tenths # 0
      [] v.k = "str"   -> Len(v.s) > 0
      [] v.k = "list"  -> Len(v.items) > 0
      [] v.k = "dict"  -> DOMAIN v.d # {}

\* hash(v) is defined (v can be put in a set)
Hashable(v) == v.k \notin {"list", "dict"}

\* dict.get(key): None when the key is missing
Get(d, key) == IF key \in DOMAIN d THEN d[key] ELSE Null

\* d[key] = v on a copy
Put(d, key, v) == [x \in (DOMAIN d) \cup {key} |-> IF x = key THEN v ELSE d[x]]

\* int(x) raises (ValueError / TypeError) for a truthy x
IntRaises(v) ==
    CASE v.k = "str"  -> ~IsIntLiteral(v.s)
      [] v.k = "list" -> TRUE
      [] v.k = "dict" -> TRUE
      [] v.k = "null" -> TRUE
      [] OTHER -> FALSE

\* int(x): truncation toward zero for a float, 0/1 for a bool
IntOf(v) ==
    CASE v.k = "int"   -> v.n
      [] v.k = "bool"  -> IF v.b THEN 1 ELSE 0
      [] v.k = "float" -> IF v.tenths >= 0 THEN v.tenths \div 10
                          ELSE 0 - ((0 - v.tenths) \div 10)
      [] v.k = "str"   -> IntLiteral(v.s)

(***************************************************************************)
(* Constants of src/api/search.py                                          *)
(***************************************************************************)
S_Vanzare     == <<"V","a","n","z","a","r","e">>
S_Inchiriere  == <<"I","n","c","h","i","r","i","e","r","e">>
S_Apartamente == <<"A","p","a","r","t","a","m","e","n","t","e">>
S_Case        == <<"C","a","s","e">>
S_Garsoniera  == <<"G","a","r","s","o","n","i","e","r","a">>
S_Terenuri    == <<"T","e","r","e","n","u","r","i">>
S_WANT        == <<"W","A","N","T">>
S_EXCLUDE     == <<"E","X","C","L","U","D","E">>

\* KNOWN_CITIES: (key, location_1 value) in the order of the dict literal
KNOWN_CITIES ==
    << <<<<"b","u","c","u","r","e","s","t","i">>, <<"B","u","c","u","r","e","s","t","i">>>>,
       <<<<"b","u","c","h","a","r","e","s","t">>, <<"B","u","c","u","r","e","s","t","i">>>>,
       <<<<"t","i","m","i","s","o","a","r","a">>, <<"T","i","m","i","s">>>>,
       <<<<"c","l","u","j">>, <<"C","l","u","j">>>>,
       <<<<"c","l","u","j","-","n","a","p","o","c","a">>, <<"C","l","u","j">>>>,
       <<<<"i","a","s","i">>, <<"I","a","s","i">>>>,
       <<<<"c","o","n","s","t","a","n","t","a">>, <<"C","o","n","s","t","a","n","t","a">>>>,
       <<<<"b","r","a","s","o","v">>, <<"B","r","a","s","o","v">>>>,
       <<<<"s","i","b","i","u">>, <<"S","i","b","i","u">>>>,
       <<<<"o","r","a","d","e","a">>, <<"B","i","h","o","r">>>>,
       <<<<"c","r","a","i","o","v","a">>, <<"D","o","l","j">>>>,
       <<<<"a","r","a","d">>, <<"A","r","a","d">>>>,
       <<<<"p","l","o","i","e","s","t","i">>, <<"P","r","a","h","o","v","a">>>> >>

\* the five feature keys, in the order validate_parsed_result visits them
FEATURE_KEYS == <<"animale", "fumatori", "parcare", "mobilat", "centrala">>
FeatureSet   == {FEATURE_KEYS[i] : i \in 1..Len(FEATURE_KEYS)}

ScalarFields ==
    {"location", "city", "transaction", "property_type", "rooms", "price_min", "price_max"}

(***************************************************************************)
(* Field normalizers                                                       *)
(***************************************************************************)
\* normalize_city(city) for a non-empty str
normalize_city(city) ==
    LET city_lower == strip_diacritics(Strip(Lower(city)))
        hit == {i \in 1..Len(KNOWN_CITIES) : KNOWN_CITIES[i][1] = city_lower}
        hit2 == {i \in 1..Len(KNOWN_CITIES) :
                    strip_diacritics(KNOWN_CITIES[i][1]) = city_lower}
    IN  IF hit # {} THEN KNOWN_CITIES[CHOOSE i \in hit : TRUE][2]
        ELSE IF hit2 # {}
             THEN KNOWN_CITIES[CHOOSE i \in hit2 : \A j \in hit2 : i <= j][2]
        ELSE Title(Strip(city))

\* validate_transaction(t) for a non-empty str: a JSON str or None
validate_transaction(t) ==
    LET u == strip_diacritics(Lower(Strip(t)))
    IN  IF u \in { <<"v","a","n","z","a","r","e">>, <<"v","a","n","d">>, <<"c","u","m","p","a","r">>,
                   <<"c","u","m","p","a","r","a","r","e">>,
                   <<"v","U+00C3","U+00A2","n","z","a","r","e">> }
        THEN JStr(S_Vanzare)
        ELSE IF u \in { <<"i","n","c","h","i","r","i","e","r","e">>, <<"i","n","c","h","i","r","i","e","z">>,
                        <<"c","h","i","r","i","e">>,
                        <<"U+00C3","U+00AE","n","c","h","i","r","i","e","r","e">> }
        THEN JStr(S_Inchiriere)
        ELSE Null

\* validate_property_type(p) for a non-empty str: a JSON str or None
validate_property_type(p) ==
    LET u == strip_diacritics(Lower(Strip(p)))
    IN  IF u \in { <<"a","p","a","r","t","a","m","e","n","t">>, <<"a","p","a","r","t","a","m","e","n","t","e">>, <<"a","p">> }
        THEN JStr(S_Apartamente)
        ELSE IF u \in { <<"c","a","s","a">>, <<"c","a","s","e">>, <<"v","i","l","a">>, <<"v","i","l","e">> }
        THEN JStr(S_Case)
        ELSE IF u \in { <<"g","a","r","s","o","n","i","e","r","a">>, <<"g","a","r","s","o","n","i","e","r","e">>,
                        <<"s","t","u","d","i","o">> }
        THEN JStr(S_Garsoniera)
        ELSE IF u \in { <<"t","e","r","e","n">>, <<"t","e","r","e","n","u","r","i">> }
        THEN JStr(S_Terenuri)
        ELSE Null

(***************************************************************************)
(* Memory (the FilterState): a dict from keys to values.  keywords is kept *)
(* as the set of its elements: the code rebuilds the list from a set, so   *)
(* its order carries no information.                                       *)
(***************************************************************************)
create_empty_memory ==
    [key \in ScalarFields \cup {"keywords", "features"} |->
        IF key = "keywords" THEN {}
        ELSE IF key = "features" THEN [f \in FeatureSet |-> Null]
        ELSE Null]

(***************************************************************************)
(* validate_parsed_result(parsed, context, user_query)                     *)
(*                                                                         *)
(* parsed is the dict the model returned, result the deep copy of context  *)
(* being updated.  Each step is given with the condition under which the   *)
(* Python statement raises; an exception anywhere abandons result.         *)
(***************************************************************************)
\* lines 498-499
merge_location(parsed, result) ==
    IF Truthy(Get(parsed, "location"))
    THEN Put(result, "location", JStr(strip_diacritics(parsed["location"].s)))
    ELSE result

\* unicodedata.normalize('NFD', x) raises TypeError unless x is a str
location_raises(parsed) ==
    Truthy(Get(parsed, "location")) /\ ~IsStr(parsed["location"])

\* lines 500-501
merge_city(parsed, result) ==
    IF Truthy(Get(parsed, "city"))
    THEN Put(result, "city", JStr(normalize_city(parsed["city"].s)))
    ELSE result

\* city.lower() raises AttributeError unless city is a str
city_raises(parsed) ==
    Truthy(Get(parsed, "city")) /\ ~IsStr(parsed["city"])

\* lines 502-505
merge_transaction(parsed, result) ==
    IF Truthy(Get(parsed, "transaction"))
    THEN LET v == validate_transaction(parsed["transaction"].s)
         IN  IF Truthy(v) THEN Put(result, "transaction", v) ELSE result
    ELSE result

transaction_raises(parsed) ==
    Truthy(Get(parsed, "transaction")) /\ ~IsStr(parsed["transaction"])

\* lines 506-509
merge_property_type(parsed, result) ==
    IF Truthy(Get(parsed, "property_type"))
    THEN LET v == validate_property_type(parsed["property_type"].s)
         IN  IF Truthy(v) THEN Put(result, "property_type", v) ELSE result
    ELSE result

property_type_raises(parsed) ==
    Truthy(Get(parsed, "property_type")) /\ ~IsStr(parsed["property_type"])

\* isinstance(rooms, int): bool is a subclass of int in Python
IsInstanceInt(v) == v.k \in {"int", "bool"}

\* variant of merge_rooms that replaces the field: an absent or invalid value resets it
merge_rooms_replaces(parsed, result) ==
    LET rooms == Get(parsed, "rooms")
    IN  IF ~IsNull(rooms) /\ IsInstanceInt(rooms) /\ 1 <= IntOf(rooms) /\ IntOf(rooms) <= 5
        THEN Put(result, "rooms", rooms)
        ELSE Put(result, "rooms", Null)

\* lines 510-513: isinstance(rooms, int) and 1 <= rooms <= 5
merge_rooms(parsed, result) ==
    LET rooms == Get(parsed, "rooms")
    IN  IF ~IsNull(rooms) /\ IsInstanceInt(rooms) /\ 1 <= IntOf(rooms) /\ IntOf(rooms) <= 5
        THEN Put(result, "rooms", rooms)
        ELSE result

\* lines 514-517: int(x) if x else None, for a key that is present and not None
merge_price(parsed, result, key) ==
    LET x == Get(parsed, key)
    IN  IF ~IsNull(x)
        THEN Put(result, key, IF Truthy(x) THEN JInt(IntOf(x)) ELSE Null)
        ELSE result

price_raises(parsed, key) ==
    LET x == Get(parsed, key)
    IN  ~IsNull(x) /\ Truthy(x) /\ IntRaises(x)

\* lines 519-523: existing | new, new being empty when keywords is not a list
merge_keywords(parsed, result) ==
    LET kw == Get(parsed, "keywords")
    IN  IF Truthy(kw)
        THEN LET existing == Get(result, "keywords")
                 new == IF IsList(kw)
                        THEN {kw.items[i] : i \in 1..Len(kw.items)}
                        ELSE {}
             IN  Put(result, "keywords", existing \cup new)
        ELSE result

\* set(list) raises TypeError on an unhashable element
keywords_raises(parsed) ==
    LET kw == Get(parsed, "keywords")
    IN  Truthy(kw) /\ IsList(kw) /\ \E i \in 1..Len(kw.items) : ~Hashable(kw.items[i])

\* variant of merge_feature without the elif branch: an explicit null is ignored
merge_feature_ignores_null(features, f, current) ==
    LET val == Get(features, f)
    IN  IF val \in {JStr(S_WANT), JStr(S_EXCLUDE)} THEN val
        ELSE current

\* lines 527-532, for one feature key f of a dict-valued parsed["features"]
merge_feature(features, f, current) ==
    LET val == Get(features, f)
    IN  IF val \in {JStr(S_WANT), JStr(S_EXCLUDE)} THEN val
        ELSE IF IsNull(val) /\ f \in DOMAIN features THEN Null
        ELSE current

\* lines 525-532
merge_features(parsed, result) ==
    IF Truthy(Get(parsed, "features"))
    THEN Put(result, "features",
             [f \in FeatureSet |->
                 merge_feature(parsed["features"].d, f, result["features"][f])])
    ELSE result

\* parsed["features"].get raises AttributeError unless it is a dict
features_raises(parsed) ==
    Truthy(Get(parsed, "features")) /\ ~IsDict(parsed["features"])

\* lines 535-537
exclude_keywords ==
    { <<"f","a","r","a"," ","a","g","e","n","t","i","i">>,
      <<"f","U+00C4","U+0192","r","U+00C4","U+0192"," ","a","g","e","n","U+00C8","U+203A","i","i">>,
      <<"d","o","a","r"," ","p","a","r","t","i","c","u","l","a","r","i">>,
      <<"n","u"," ","a","g","e","n","t","i">>,
      <<"p","r","i","v","a","t","e"," ","o","n","l","y">>,
      <<"n","o"," ","a","g","e","n","t","s">>,
      <<"f","a","r","a"," ","a","g","e","n","t","i","e">>,
      <<"f","U+00C4","U+0192","r","U+00C4","U+0192"," ","a","g","e","n","U+00C8","U+203A","i","e">>,
      <<"p","a","r","t","i","c","u","l","a","r","i">>,
      <<"f","a","r","a"," ","a","g","e","n","t","i">> }

\* variant of merge_exclude_agencies that also takes over a false from the delta
merge_exclude_agencies_follows_delta(parsed, result, user_query) ==
    LET query_lower == Lower(user_query)
    IN  IF Get(parsed, "exclude_agencies") = JBool(TRUE)
           \/ \E kw \in exclude_keywords : Contains(query_lower, kw)
        THEN Put(result, "exclude_agencies", JBool(TRUE))
        ELSE IF Get(parsed, "exclude_agencies") = JBool(FALSE)
             THEN Put(result, "exclude_agencies", JBool(FALSE))
             ELSE result

\* lines 538-541
merge_exclude_agencies(parsed, result, user_query) ==
    LET query_lower == Lower(user_query)
    IN  IF Get(parsed, "exclude_agencies") = JBool(TRUE)
           \/ \E kw \in exclude_keywords : Contains(query_lower, kw)
        THEN Put(result, "exclude_agencies", JBool(TRUE))
        ELSE result

\* parsed is a JSON value; parsed.get raises AttributeError unless it is a dict
validate_raises(parsed) ==
    \/ ~IsDict(parsed)
    \/ location_raises(parsed.d)
    \/ city_raises(parsed.d)
    \/ transaction_raises(parsed.d)
    \/ property_type_raises(parsed.d)
    \/ price_raises(parsed.d, "price_min")
    \/ price_raises(parsed.d, "price_max")
    \/ keywords_raises(parsed.d)
    \/ features_raises(parsed.d)

\* lines 494-543, when no statement raises
validate_parsed_result(parsed, context, user_query) ==
    LET p  == parsed.d
        r1 == merge_location(p, context)
        r2 == merge_city(p, r1)
        r3 == merge_transaction(p, r2)
        r4 == merge_property_type(p, r3)
        r5 == merge_rooms(p, r4)
        r6 == merge_price(p, r5, "price_min")
        r7 == merge_price(p, r6, "price_max")
        r8 == merge_keywords(p, r7)
        r9 == merge_features(p, r8)
    IN  merge_exclude_agencies(p, r9, user_query)

(***************************************************************************)
(* parse_query_with_llm(user_query, current_context)                       *)
(*                                                                         *)
(* The model call is an input: llm.kind is                                 *)
(*   "error"     httpx.post or response.json() raised (timeout, network),  *)
(*   "empty"     the completion is empty after strip(),                    *)
(*   "malformed" json.loads raised on the repaired text,                   *)
(*   "json"      json.loads returned llm.value.                            *)
(* An outcome is [raised, value].                                          *)
(***************************************************************************)
Returns(v) == [raised |-> FALSE, value |-> v]
Raised     == [raised |-> TRUE, value |-> Null]

\* lines 472-486 on a completion that is the text of the JSON value v: the text is
\* cut from its first "{" to its last "}" and then loaded.  The text of an object
\* is left whole; the text of an array is cut down to the one object among its
\* items, or to "{..}, .. {..}", which does not load, when it holds several; a text
\* without braces is left whole.  (Strings here hold no braces; items are scalars
\* or objects.)
extract_json(v) ==
    IF IsList(v)
    THEN LET objects == {i \in 1..Len(v.items) : IsDict(v.items[i])}
         IN  IF objects = {} THEN Returns(v)
             ELSE IF Cardinality(objects) = 1
                  THEN Returns(v.items[CHOOSE i \in objects : TRUE])
                  ELSE Raised
    ELSE Returns(v)

\* lines 485-486: json.loads gave parsed (or raised); validate_parsed_result follows
validate_loaded(parsed, current_context, user_query) ==
    IF parsed.raised \/ validate_raises(parsed.value) THEN Raised
    ELSE Returns(validate_parsed_result(parsed.value, current_context, user_query))

\* lines 453-487: the body of the try block
llm_try_block(user_query, current_context, llm) ==
    CASE llm.kind = "error"     -> Raised
      [] llm.kind = "empty"     -> Returns(current_context)
      [] llm.kind = "malformed" -> Raised
      [] llm.kind = "json"      ->
            validate_loaded(extract_json(llm.value), current_context, user_query)

\* lines 488-491: except Exception returns current_context; r is the outcome of the try block
except_handler(r, current_context) ==
    IF r.raised THEN Returns(current_context) ELSE r

\* variant of parse_query_with_llm whose except branch starts over from the empty state
parse_query_with_llm_resets(user_query, current_context, llm) ==
    LET r == llm_try_block(user_query, current_context, llm)
    IN  IF r.raised THEN Returns(create_empty_memory) ELSE r

\* lines 452-491
parse_query_with_llm(user_query, current_context, llm) ==
    except_handler(llm_try_block(user_query, current_context, llm), current_context)

(***************************************************************************)
(* Inputs: what the language model may answer, and the query texts         *)
(***************************************************************************)
MaxCalls == 2

LocationValues ==
    { JStr(<<"T","i","t","a","n">>),
      JStr(<<"B","U+0103","n","e","a","s","a">>),
      JInt(7),
      Null }
CityValues ==
    { JStr(<<"B","u","c","h","a","r","e","s","t">>), JStr(<<" ","p","a","r","i","s">>), Null }
TransactionValues ==
    { JStr(<<"C","h","i","r","i","e">>), JStr(<<"l","e","a","s","i","n","g">>), Null }
PropertyTypeValues ==
    { JStr(<<"s","t","u","d","i","o">>), JStr(<<"h","o","t","e","l">>), Null }
RoomsValues ==
    { JInt(2), JInt(0), JInt(6), JBool(TRUE), JStr(<<"2">>), JFloat(25), Null }
PriceValues ==
    { JInt(600), JInt(0), JInt(0 - 50), JStr(<<"6","0","0">>),
      JStr(<<"6","0","0"," ","e","u","r","o">>), JFloat(5), Null }
KeywordsValues ==
    { JList(<<JStr(<<"m","o","d","e","r","n">>)>>),
      JList(<<JStr(<<"b","a","l","c","o","n">>), JStr(<<"m","o","d","e","r","n">>)>>),
      JStr(<<"m","o","d","e","r","n">>),
      JList(<<JList(<<>>)>>),
      Null }
FeaturesValues ==
    { JDict("animale" :> JStr(S_WANT)),
      JDict("animale" :> Null),
      JDict(("animale" :> JStr(S_EXCLUDE)) @@ ("parcare" :> JStr(S_WANT))),
      JDict(("parcare" :> Null) @@ ("mobilat" :> JStr(<<"y","e","s">>))),
      JStr(S_WANT),
      Null }
ExcludeAgenciesValues ==
    { JBool(TRUE), JBool(FALSE), Null }

DeltaFields == ScalarFields \cup {"keywords", "features", "exclude_agencies"}

FieldValues(f) ==
    CASE f = "location"         -> LocationValues
      [] f = "city"             -> CityValues
      [] f = "transaction"      -> TransactionValues
      [] f = "property_type"    -> PropertyTypeValues
      [] f = "rooms"            -> RoomsValues
      [] f = "price_min"        -> PriceValues
      [] f = "price_max"        -> PriceValues
      [] f = "keywords"         -> KeywordsValues
      [] f = "features"         -> FeaturesValues
      [] f = "exclude_agencies" -> ExcludeAgenciesValues

\* a second field that a delta carries next to the first
Companions ==
    { "rooms" :> JInt(3),
      "keywords" :> JList(<<JStr(<<"b","a","l","c","o","n">>)>>) }

EmptyDelta == [x \in {} |-> Null]

SingleDeltas == UNION {{f :> v : v \in FieldValues(f)} : f \in DeltaFields}
\* rooms next to every other field, a keywords list next to a price
CompanionsOf(d) ==
    {x \in Companions :
        /\ DOMAIN x # DOMAIN d
        /\ "keywords" \in DOMAIN x => DOMAIN d \subseteq {"price_min", "price_max"}}
DoubleDeltas == UNION {{d @@ c : c \in CompanionsOf(d)} : d \in SingleDeltas}
Deltas == {EmptyDelta} \cup SingleDeltas \cup DoubleDeltas

\* JSON values that are not objects
NonObjects ==
    { JList(<<JInt(1)>>), JInt(42), JStr(<<"o","k">>), Null,
      JList(<<JDict("rooms" :> JInt(4))>>),
      JList(<<JDict("rooms" :> JInt(4)), JDict("price_max" :> JInt(600))>>) }

Q_rooms   == <<"c","u"," ","2"," ","c","a","m","e","r","e">>
Q_private == <<"D","o","a","r"," ","P","A","R","T","I","C","U","L","A","R","I">>

LlmFailures == { [kind |-> "error"], [kind |-> "empty"], [kind |-> "malformed"] }
LlmJson(v)  == [kind |-> "json", value |-> v]

\* the replies a call may get (sets of values fixed once, before any step)
ObjectReplies    == {LlmJson(JDict(d)) : d \in Deltas}
PrivateDeltas    == {EmptyDelta, "exclude_agencies" :> JBool(FALSE), "rooms" :> JInt(2)}
PrivateReplies   == {LlmJson(JDict(d)) : d \in PrivateDeltas}
NonObjectReplies == {LlmJson(v) : v \in NonObjects}

(***************************************************************************)
(* The session store: one document per doc id (src/api/search.py 131-205). *)
(* A store call either answers or fails (non-200 status, network error).   *)
(***************************************************************************)
HISTORY_CAP == 50

\* lines 133, 150, 195: f"{user_id}_{session_id}"
doc_id(user_id, session_id) == user_id \o <<"_">> \o session_id

\* the index holds no document under a doc id
NoDoc == [absent |-> TRUE]

\* query_history[-50:]
LastN(s, n) == IF Len(s) <= n THEN s ELSE SubSeq(s, Len(s) - n + 1, Len(s))

\* variant of load_memory that hands out the stored filters although the GET failed
load_memory_ignores_failure(index, user_id, session_id, get_ok) ==
    LET d == doc_id(user_id, session_id)
    IN  IF index[d] # NoDoc
        THEN index[d].filters
        ELSE create_empty_memory

\* lines 131-145; get_ok: the GET was answered (200 with the document, or 404)
load_memory(index, user_id, session_id, get_ok) ==
    LET d == doc_id(user_id, session_id)
    IN  IF get_ok /\ index[d] # NoDoc
        THEN index[d].filters
        ELSE create_empty_memory

\* lines 151-182: the GET of the stored document and the document that is built
\* from it; ts is the time taken at line 151
save_memory_doc(index, ts, user_id, session_id, filters, q, get_ok) ==
    LET d == doc_id(user_id, session_id)
        found == get_ok /\ index[d] # NoDoc
        query_history == IF found THEN index[d].query_history ELSE <<>>
        created_at == IF found THEN index[d].created_at ELSE ts
        history == IF Len(q) > 0
                   THEN LastN(Append(query_history, [q |-> q, ts |-> ts]), HISTORY_CAP)
                   ELSE query_history
    IN  [ user_id |-> user_id, session_id |-> session_id,
          filters |-> filters, query_history |-> history,
          created_at |-> created_at, updated_at |-> ts ]

\* variant of save_memory_put in which the document never reaches the store
save_memory_put_drops(index, d, doc, put) ==
    [ index  |-> index,
      raised |-> put = "raises" ]

\* variant of save_memory_put in which the store keeps the stored value of every
\* filter that is null in the document that is put
save_memory_put_merges(index, d, doc, put) ==
    [ index  |-> IF put = "ok"
                 THEN IF index[d] = NoDoc
                      THEN [index EXCEPT ![d] = doc]
                      ELSE [index EXCEPT ![d] =
                              [doc EXCEPT !.filters =
                                  [key \in DOMAIN doc.filters |->
                                      IF key \in ScalarFields /\ IsNull(doc.filters[key])
                                      THEN Get(index[d].filters, key)
                                      ELSE doc.filters[key]]]]
                 ELSE index,
      raised |-> put = "raises" ]

\* lines 184-190: the PUT of the whole document under its id; the status of the
\* response is not looked at
save_memory_put(index, d, doc, put) ==
    [ index  |-> IF put = "ok" THEN [index EXCEPT ![d] = doc] ELSE index,
      raised |-> put = "raises" ]

\* lines 148-190; returns the index after the call and whether the call raised.
\* put is "ok", "rejected" (a non-success status, which nobody looks at) or
\* "raises" (requests.put raises, outside any try).
save_memory(index, ts, user_id, session_id, filters, q, get_ok, put) ==
    save_memory_put(index, doc_id(user_id, session_id),
                    save_memory_doc(index, ts, user_id, session_id, filters, q, get_ok),
                    put)

\* lines 193-205; answered: the DELETE got status 200 or 404
delete_memory(index, user_id, session_id, answered) ==
    LET d == doc_id(user_id, session_id)
    IN  [ index |-> IF answered THEN [index EXCEPT ![d] = NoDoc] ELSE index,
          value |-> answered ]

(***************************************************************************)
(* build_opensearch_query (src/api/search.py 550-688)                      *)
(***************************************************************************)
\* the query clauses (Python dicts), tagged by their key; values and query texts
\* are Python values, boosts are float literals
Term(field, value) == [type |-> "term", field |-> field, value |-> value]
TermBoost(field, value, boost) ==
    [type |-> "term", field |-> field, value |-> value, boost |-> boost]
Match(field, query_text, boost) ==
    [type |-> "match", field |-> field, query |-> query_text, boost |-> boost]
MatchFuzzy(field, query_text, fuzziness, boost) ==
    [type |-> "match", field |-> field, query |-> query_text, fuzziness |-> fuzziness,
     boost |-> boost]
MatchPhrase(field, phrase) == [type |-> "match_phrase", field |-> field, query |-> phrase]
BoolShould(clauses) == [type |-> "bool", should |-> clauses, minimum_should_match |-> 1]
Range(field, bounds) == [type |-> "range", field |-> field, bounds |-> bounds]
Neural(field, query_text) ==
    [type |-> "neural", field |-> field, query_text |-> query_text,
     model_id |-> "settings.embedding_model_id", k |-> 100]
MatchAll == [type |-> "match_all"]

\* lines 31-60
FEATURE_PATTERNS ==
    [ animale |->
          [ positive_boost |->
                <<"a","c","c","e","p","t","a"," ","a","n","i","m","a","l","e"," ","p","e","t"," ","f","r","i","e","n","d","l","y"," ","p","i","s","i","c","i"," ","c","a","i","n","i"," ","a","n","i","m","a","l","e"," ","d","e"," ","c","o","m","p","a","n","i","e"," ","s","e"," ","a","c","c","e","p","t","a"," ","a","n","i","m","a","l">>,
            negative_patterns |->
               << <<"n","u"," ","s","e"," ","a","c","c","e","p","t","a"," ","a","n","i","m","a","l","e">>,
                  <<"n","u"," ","s","e"," ","a","c","c","e","p","t","U+00C4","U+0192"," ","a","n","i","m","a","l","e">>,
                  <<"n","u"," ","a","c","c","e","p","t"," ","a","n","i","m","a","l","e">>,
                  <<"n","u"," ","a","c","c","e","p","t","a"," ","a","n","i","m","a","l","e">>,
                  <<"n","u"," ","a","c","c","e","p","t","a","m"," ","a","n","i","m","a","l","e">>,
                  <<"f","a","r","a"," ","a","n","i","m","a","l","e">>,
                  <<"f","U+00C4","U+0192","r","U+00C4","U+0192"," ","a","n","i","m","a","l","e">>,
                  <<"e","x","c","l","u","s"," ","a","n","i","m","a","l","e">>,
                  <<"n","u"," ","s","e"," ","a","c","c","e","p","t","a"," ","a","n","i","m","a","l","e"," ","d","e"," ","c","o","m","p","a","n","i","e">>,
                  <<"n","u"," ","a","c","c","e","p","t"," ","a","n","i","m","a","l","e"," ","d","e"," ","c","o","m","p","a","n","i","e">>,
                  <<"n","u"," ","s","u","n","t"," ","a","c","c","e","p","t","a","t","e"," ","a","n","i","m","a","l","e">>,
                  <<"n","u"," ","s","e"," ","a","c","c","e","p","t","U+00C4","U+0192"," ","a","n","i","m","a","l","e"," ","d","e"," ","c","o","m","p","a","n","i","e">> >> ],
      fumatori |->
          [ positive_boost |->
                <<"f","u","m","a","t","o","r","i"," ","a","c","c","e","p","t","a","t","i"," ","s","e"," ","p","o","a","t","e"," ","f","u","m","a"," ","a","c","c","e","p","t"," ","f","u","m","a","t","o","r","i">>,
            negative_patterns |->
               << <<"n","u"," ","a","c","c","e","p","t"," ","f","u","m","a","t","o","r","i">>,
                  <<"n","u"," ","a","c","c","e","p","t"," ","f","u","m","U+00C4","U+0192","t","o","r","i">>,
                  <<"f","a","r","a"," ","f","u","m","a","t","o","r","i">>,
                  <<"f","U+00C4","U+0192","r","U+00C4","U+0192"," ","f","u","m","U+00C4","U+0192","t","o","r","i">>,
                  <<"n","e","f","u","m","a","t","o","r","i">>,
                  <<"n","o","n"," ","f","u","m","a","t","o","r","i">>,
                  <<"n","u"," ","s","e"," ","f","u","m","e","a","z","a">>,
                  <<"i","n","t","e","r","z","i","s"," ","f","u","m","a","t","u","l">>,
                  <<"e","x","c","l","u","s"," ","f","u","m","a","t","o","r","i">> >> ],
      parcare |->
          [ positive_boost |->
                <<"l","o","c"," ","p","a","r","c","a","r","e"," ","g","a","r","a","j"," ","p","a","r","c","a","r","e"," ","i","n","c","l","u","s","a"," ","p","a","r","c","a","r","e"," ","s","u","b","t","e","r","a","n","a"," ","b","o","x","a">>,
            negative_patterns |->
               << <<"f","a","r","a"," ","p","a","r","c","a","r","e">>,
                  <<"f","U+00C4","U+0192","r","U+00C4","U+0192"," ","p","a","r","c","a","r","e">>,
                  <<"n","u"," ","a","r","e"," ","p","a","r","c","a","r","e">> >> ],
      mobilat |->
          [ positive_boost |->
                <<"m","o","b","i","l","a","t"," ","c","o","m","p","l","e","t"," ","u","t","i","l","a","t"," ","m","o","b","i","l","a","t"," ","m","o","d","e","r","n"," ","c","o","m","p","l","e","t"," ","m","o","b","i","l","a","t">>,
            negative_patterns |->
               << <<"n","e","m","o","b","i","l","a","t">>,
                  <<"n","e","u","t","i","l","a","t">>,
                  <<"f","a","r","a"," ","m","o","b","i","l","a">>,
                  <<"f","U+00C4","U+0192","r","U+00C4","U+0192"," ","m","o","b","i","l","U+00C4","U+0192">>,
                  <<"g","o","l">> >> ],
      centrala |->
          [ positive_boost |->
                <<"c","e","n","t","r","a","l","a"," ","p","r","o","p","r","i","e"," ","c","e","n","t","r","a","l","a"," ","t","e","r","m","i","c","a"," ","i","n","c","a","l","z","i","r","e"," ","a","u","t","o","n","o","m","a">>,
            negative_patterns |->
               << <<"f","a","r","a"," ","c","e","n","t","r","a","l","a">>,
                  <<"U+00C3","U+00AE","n","c","U+00C4","U+0192","l","z","i","r","e"," ","c","e","n","t","r","a","l","i","z","a","t","U+00C4","U+0192">> >> ] ]

\* str(n) of an int
RECURSIVE NatToStr(_)
NatToStr(n) ==
    IF n < 10 THEN <<Digits[n + 1]>> ELSE NatToStr(n \div 10) \o <<Digits[(n % 10) + 1]>>

IntToStr(n) == IF n < 0 THEN <<"-">> \o NatToStr(0 - n) ELSE NatToStr(n)

\* how an f-string formats a value
Format(v) ==
    CASE v.k = "int"  -> IntToStr(v.n)
      [] v.k = "bool" -> IF v.b THEN <<"T","r","u","e">> ELSE <<"F","a","l","s","e">>
      [] v.k = "str"  -> v.s
      [] OTHER        -> <<"N","o","n","e">>

\* re.search(r'(\d+)', s): whether there is a match, and its group 1, the first
\* maximal run of digits
HasDigit(s) == \E i \in 1..Len(s) : IsDigit(s[i])

RECURSIVE DigitRun(_, _)
DigitRun(s, i) ==
    IF i > Len(s) \/ ~IsDigit(s[i]) THEN <<>> ELSE <<s[i]>> \o DigitRun(s, i + 1)

FirstDigitRun(s) ==
    DigitRun(s, CHOOSE i \in 1..Len(s) : IsDigit(s[i]) /\ \A j \in 1..(i - 1) : ~IsDigit(s[j]))

\* lines 564-573
sector_clause(sector_num) ==
    BoolShould(<< Term("location_2", JStr(<<"S","e","c","t","o","r"," ">> \o sector_num)),
                  Term("location_2", JStr(<<"S","e","c","t","o","r","u","l"," ">> \o sector_num)) >>)

\* lines 575-585
place_clause(location) ==
    BoolShould(<< TermBoost("location_3", location, "3.0"),
                  MatchFuzzy("location_3", location, "AUTO", "2.5"),
                  Match("driver_title", location, "2.0"),
                  Match("description", location, "1.0") >>)

\* variant of location_clauses that looks for "sector" in the location as spelled
location_clauses_as_spelled(parsed) ==
    IF ~Truthy(Get(parsed, "location")) THEN <<>>
    ELSE IF Contains(parsed["location"].s, <<"s","e","c","t","o","r">>)
         THEN IF HasDigit(parsed["location"].s)
              THEN <<sector_clause(FirstDigitRun(parsed["location"].s))>>
              ELSE <<>>
         ELSE <<place_clause(parsed["location"])>>

\* lines 557-585: the must clauses of the location
location_clauses(parsed) ==
    IF ~Truthy(Get(parsed, "location")) THEN <<>>
    ELSE IF Contains(Lower(parsed["location"].s), <<"s","e","c","t","o","r">>)
         THEN IF HasDigit(parsed["location"].s)
              THEN <<sector_clause(FirstDigitRun(parsed["location"].s))>>
              ELSE <<>>
         ELSE <<place_clause(parsed["location"])>>

\* lines 587-594: city, transaction, property_type
term_clauses(parsed, key, field) ==
    IF Truthy(Get(parsed, key)) THEN <<Term(field, parsed[key])>> ELSE <<>>

\* rooms == 1 (True == 1 in Python)
EqualsOne(v) ==
    CASE v.k = "int"   -> v.n = 1
      [] v.k = "bool"  -> v.b
      [] v.k = "float" -> v.tenths = 10
      [] OTHER         -> FALSE

\* variant of rooms_clauses without the branch for one room
rooms_clauses_exact_only(parsed) ==
    IF ~Truthy(Get(parsed, "rooms")) THEN <<>>
    ELSE <<Term("categories", JStr(Format(parsed["rooms"]) \o <<" ","c","a","m","e","r","e">>))>>

\* lines 596-609
rooms_clauses(parsed) ==
    IF ~Truthy(Get(parsed, "rooms")) THEN <<>>
    ELSE IF EqualsOne(parsed["rooms"])
         THEN <<BoolShould(<< Term("categories", JStr(<<"1"," ","c","a","m","e","r","e">>)),
                              Term("categories", JStr(S_Garsoniera)) >>)>>
         ELSE <<Term("categories", JStr(Format(parsed["rooms"]) \o <<" ","c","a","m","e","r","e">>))>>

\* lines 611-616: price_filter, a dict with the keys gte and lte that were set
price_filter(parsed) ==
    [ b \in {x \in {"gte", "lte"} :
                Truthy(Get(parsed, IF x = "gte" THEN "price_min" ELSE "price_max"))} |->
        parsed[IF b = "gte" THEN "price_min" ELSE "price_max"] ]

\* lines 617-618
price_clauses(parsed) ==
    IF DOMAIN price_filter(parsed) # {}
    THEN <<Range("price", price_filter(parsed))>>
    ELSE <<>>

\* variant of keyword_clauses that puts the matches of all keywords in one OR-group
keyword_clauses_one_group(keywords) ==
    IF Len(keywords) = 0 THEN <<>>
    ELSE <<BoolShould([ i \in 1..(2 * Len(keywords)) |->
                          IF i % 2 = 1
                          THEN Match("driver_title", keywords[(i + 1) \div 2], "2.0")
                          ELSE Match("description", keywords[i \div 2], "1.0") ])>>

\* lines 620-630, for the list parsed["keywords"]
keyword_clauses(keywords) ==
    [ i \in 1..Len(keywords) |->
        BoolShould(<< Match("driver_title", keywords[i], "2.0"),
                      Match("description", keywords[i], "1.0") >>) ]

\* line 638: the feature is skipped
feature_skipped(features, fname) ==
    ~Truthy(features[fname]) \/ fname \notin DOMAIN FEATURE_PATTERNS

\* lines 643-644: the must_not clauses of one feature
phrase_exclusions(negative_patterns) ==
    [ j \in 1..Len(negative_patterns) |->
        MatchPhrase("description", JStr(negative_patterns[j])) ]

\* variant of feature_must_not that filters for EXCLUDE as well
feature_must_not_both(features, fname) ==
    IF feature_skipped(features, fname) THEN <<>>
    ELSE IF features[fname] \in {JStr(S_WANT), JStr(S_EXCLUDE)}
         THEN phrase_exclusions(FEATURE_PATTERNS[fname].negative_patterns)
         ELSE <<>>

\* lines 637-644, one pass of the loop: what it appends to must_not
feature_must_not(features, fname) ==
    IF feature_skipped(features, fname) THEN <<>>
    ELSE IF features[fname] = JStr(S_WANT)
         THEN phrase_exclusions(FEATURE_PATTERNS[fname].negative_patterns)
         ELSE <<>>

\* negative_patterns[:3]
FirstThree(l) == SubSeq(l, 1, IF Len(l) < 3 THEN Len(l) ELSE 3)

\* variant of feature_texts in which only a wanted feature adds text
feature_texts_want_only(features, fname) ==
    IF feature_skipped(features, fname) THEN <<>>
    ELSE IF features[fname] = JStr(S_WANT)
         THEN <<FEATURE_PATTERNS[fname].positive_boost>>
         ELSE <<>>

\* lines 637-646, one pass of the loop: what it appends to neural_boost_texts
feature_texts(features, fname) ==
    IF feature_skipped(features, fname) THEN <<>>
    ELSE IF features[fname] = JStr(S_WANT)
         THEN <<FEATURE_PATTERNS[fname].positive_boost>>
         ELSE IF features[fname] = JStr(S_EXCLUDE)
              THEN FirstThree(FEATURE_PATTERNS[fname].negative_patterns)
              ELSE <<>>

\* lines 637-646: the loop over features.items(), in the order of the dict's keys
RECURSIVE features_must_not(_, _)
features_must_not(features, i) ==
    IF i > Len(FEATURE_KEYS) THEN <<>>
    ELSE feature_must_not(features, FEATURE_KEYS[i]) \o features_must_not(features, i + 1)

RECURSIVE neural_boost_texts(_, _)
neural_boost_texts(features, i) ==
    IF i > Len(FEATURE_KEYS) THEN <<>>
    ELSE feature_texts(features, FEATURE_KEYS[i]) \o neural_boost_texts(features, i + 1)

\* " ".join(texts)
RECURSIVE Join(_)
Join(texts) ==
    IF Len(texts) = 0 THEN <<>>
    ELSE IF Len(texts) = 1 THEN texts[1]
    ELSE texts[1] \o <<" ">> \o Join(Tail(texts))

\* lines 648-656
neural_clauses(texts) ==
    IF Len(texts) > 0 THEN <<Neural("listing_vector", JStr(Join(texts)))>> ELSE <<>>

\* lines 658-662
agency_clauses(parsed) ==
    IF Truthy(Get(parsed, "exclude_agencies")) THEN <<Term("is_agent", JStr(<<"t","r","u","e">>))>> ELSE <<>>

\* lines 553-630: the list must before the final query is built
must_clauses(parsed, keywords) ==
    location_clauses(parsed)
      \o term_clauses(parsed, "city", "location_1")
      \o term_clauses(parsed, "transaction", "categories")
      \o term_clauses(parsed, "property_type", "categories")
      \o rooms_clauses(parsed)
      \o price_clauses(parsed)
      \o keyword_clauses(keywords)

\* lines 632-662: the list must_not
must_not_clauses(parsed) ==
    features_must_not(parsed["features"], 1) \o agency_clauses(parsed)

\* line 669 for a list that is never replaced by the match-all clause
must_as_is(must) == must

\* line 669: must if must else [{"match_all": {}}]
must_or_match_all(must) == IF Len(must) > 0 THEN must ELSE <<MatchAll>>

\* lines 673-679
SOURCE_FIELDS ==
    << "driver_title", "name", "description", "price", "currency",
       "location_1", "location_2", "location_3", "coordinates",
       "ad_url", "ad_id", "categories", "attributes",
       "src_images", "images", "decrypted_phone", "source", "ad_source",
       "valid_from", "user_name", "is_agent" >>

\* lines 667-686: query["query"]["bool"], a dict whose keys should,
\* minimum_should_match and must_not are set only for non-empty lists
bool_query(must, should, must_not) ==
    [ key \in {"must"}
              \cup (IF Len(should) > 0 THEN {"should", "minimum_should_match"} ELSE {})
              \cup (IF Len(must_not) > 0 THEN {"must_not"} ELSE {}) |->
        CASE key = "must"     -> must_or_match_all(must)
          [] key = "should"   -> should
          [] key = "must_not" -> must_not
          [] OTHER            -> 0 ]

\* lines 550-688; keywords is the list parsed["keywords"], whose order is the
\* iteration order of a Python set (validate_parsed_result, 519-523)
build_opensearch_query(parsed, keywords, size, offset) ==
    [ size   |-> size,
      from   |-> offset,
      query  |-> [bool |-> bool_query(must_clauses(parsed, keywords),
                                      neural_clauses(neural_boost_texts(parsed["features"], 1)),
                                      must_not_clauses(parsed))],
      _source |-> SOURCE_FIELDS ]

\* a list that holds the elements of a set, each once
RECURSIVE ListOf(_)
ListOf(set) ==
    IF set = {} THEN <<>>
    ELSE <<CHOOSE x \in set : TRUE>> \o ListOf(set \ {CHOOSE x \in set : TRUE})

\* the plan filters out listings of agencies
ExcludesAgents(os_query) ==
    /\ "must_not" \in DOMAIN os_query.query.bool
    /\ \E i \in 1..Len(os_query.query.bool.must_not) :
          os_query.query.bool.must_not[i] = Term("is_agent", JStr(<<"t","r","u","e">>))

(***************************************************************************)
(* search (src/api/search.py 857-922)                                      *)
(***************************************************************************)
DEFAULT_SIZE   == 25
DEFAULT_OFFSET == 0

\* variant of search that writes the override into the loaded state, before the merge
search_overrides_before_merge(index, ts, user_query, user_id, session_id, size, offset, override, llm, fault) ==
    LET loaded == load_memory(index, user_id, session_id, fault # "load")
        memory == IF ~IsNull(override)
                  THEN Put(loaded, "exclude_agencies", override)
                  ELSE loaded
        parsed == parse_query_with_llm(user_query, memory, llm).value
        put    == CASE fault = "put_rejected" -> "rejected"
                    [] fault = "put_raises"   -> "raises"
                    [] OTHER                  -> "ok"
        saved  == save_memory(index, ts, user_id, session_id, parsed, user_query,
                              fault # "save_get", put)
        os_query == build_opensearch_query(parsed, ListOf(parsed["keywords"]), size, offset)
    IN  [ index    |-> saved.index,
          memory   |-> loaded,
          parsed   |-> parsed,
          saved    |-> put = "ok",
          compiled |-> ~saved.raised,
          os_query |-> os_query,
          raised   |-> saved.raised \/ fault = "engine",
          engine_calls |-> IF saved.raised THEN 0 ELSE 1,
          value    |-> [parsed |-> parsed, opensearch_query |-> os_query] ]

\* fault names the one call of a request that fails, if any: "load" (GET of
\* load_memory), "save_get" (GET of save_memory), "put_rejected", "put_raises",
\* "engine" (execute_search raises), or "none".
put_outcome(fault) ==
    CASE fault = "put_rejected" -> "rejected"
      [] fault = "put_raises"   -> "raises"
      [] OTHER                  -> "ok"

\* lines 883-885; override is Null (None), JBool(TRUE) or JBool(FALSE)
apply_override(merged, override) ==
    IF ~IsNull(override)
    THEN Put(merged, "exclude_agencies", override)
    ELSE merged

\* variant of search_saved that absorbs a failure of the engine
search_saved_absorbs(memory, parsed, saved, os_query, fault) ==
    [ index    |-> saved.index,
      memory   |-> memory,
      parsed   |-> parsed,
      saved    |-> put_outcome(fault) = "ok",
      compiled |-> ~saved.raised,
      os_query |-> os_query,
      raised   |-> saved.raised,
      engine_calls |-> IF saved.raised THEN 0 ELSE 1,
      value    |-> [parsed |-> parsed, opensearch_query |-> os_query] ]

\* lines 892-922: execute_search, and what search returns; saved is the outcome of
\* save_memory.  execute_search (763-787) posts the plan once and raises on a
\* status other than 200 or a network error; engine_calls counts its posts.
search_saved(memory, parsed, saved, os_query, fault) ==
    [ index    |-> saved.index,
      memory   |-> memory,
      parsed   |-> parsed,
      saved    |-> put_outcome(fault) = "ok",
      compiled |-> ~saved.raised,
      os_query |-> os_query,
      raised   |-> saved.raised \/ fault = "engine",
      engine_calls |-> IF saved.raised THEN 0 ELSE 1,
      value    |-> [parsed |-> parsed, opensearch_query |-> os_query] ]

\* variant of search_parsed that compiles the first page whatever was asked
search_parsed_first_page(index, ts, user_query, user_id, session_id, size, offset, memory, parsed, fault) ==
    search_saved(memory, parsed,
                 save_memory(index, ts, user_id, session_id, parsed, user_query,
                             fault # "save_get", put_outcome(fault)),
                 build_opensearch_query(parsed, ListOf(parsed["keywords"]),
                                        DEFAULT_SIZE, DEFAULT_OFFSET),
                 fault)

\* lines 887-891: save_memory, build_opensearch_query
search_parsed(index, ts, user_query, user_id, session_id, size, offset, memory, parsed, fault) ==
    search_saved(memory, parsed,
                 save_memory(index, ts, user_id, session_id, parsed, user_query,
                             fault # "save_get", put_outcome(fault)),
                 build_opensearch_query(parsed, ListOf(parsed["keywords"]), size, offset),
                 fault)

\* lines 880-885: parse_query_with_llm on the loaded memory, then the override
search_loaded(index, ts, user_query, user_id, session_id, size, offset, override, llm, fault, memory) ==
    search_parsed(index, ts, user_query, user_id, session_id, size, offset, memory,
                  apply_override(parse_query_with_llm(user_query, memory, llm).value,
                                 override),
                  fault)

\* lines 857-922
search(index, ts, user_query, user_id, session_id, size, offset, override, llm, fault) ==
    search_loaded(index, ts, user_query, user_id, session_id, size, offset, override, llm,
                  fault, load_memory(index, user_id, session_id, fault # "load"))

(***************************************************************************)
(* Requests: who asks, what is asked, what the model answers               *)
(***************************************************************************)
MaxTurns == 2

\* (user_id, session_id) pairs, all different
P_a_bc == [user_id |-> <<"a">>,   session_id |-> <<"b", "_", "c">>]
P_ab_c == [user_id |-> <<"a", "_", "b">>, session_id |-> <<"c">>]
P_a_c  == [user_id |-> <<"a">>,   session_id |-> <<"c">>]
Pairs  == {P_a_bc, P_ab_c, P_a_c}

DocIds == {doc_id(p.user_id, p.session_id) : p \in Pairs}

\* the uiOverride of a request
Overrides == {Null, JBool(TRUE), JBool(FALSE)}

SessionDeltas ==
    { "keywords" :> JList(<<JStr(<<"m", "o", "d", "e", "r", "n">>)>>),
      ("keywords" :> JList(<<JStr(<<"b", "a", "l", "c", "o", "n">>)>>)) @@ ("price_max" :> JStr(<<"6", "0", "0", " ", "e", "u", "r", "o">>)),
      "price_min" :> JInt(600),
      "price_min" :> JInt(0),
      "rooms" :> JInt(2),
      "rooms" :> Null,
      "features" :> JDict("animale" :> JStr(S_WANT)),
      "features" :> JDict("animale" :> Null),
      "exclude_agencies" :> JBool(TRUE),
      "exclude_agencies" :> JBool(FALSE) }
SessionReplies == {LlmJson(JDict(d)) : d \in SessionDeltas} \cup {[kind |-> "error"]}

OverrideDeltas  == {"exclude_agencies" :> JBool(FALSE)}
OverrideReplies == {LlmJson(JDict(d)) : d \in OverrideDeltas} \cup {[kind |-> "error"]}

OtherDeltas  == {"keywords" :> JList(<<JStr(<<"b", "a", "l", "c", "o", "n">>)>>), "exclude_agencies" :> JBool(TRUE)}
OtherReplies == {LlmJson(JDict(d)) : d \in OtherDeltas}

FaultDeltas  == {"keywords" :> JList(<<JStr(<<"m", "o", "d", "e", "r", "n">>)>>), "exclude_agencies" :> JBool(TRUE)}
FaultReplies == {LlmJson(JDict(d)) : d \in FaultDeltas}

\* the search requests: the pair, the query text, the uiOverride, and what the
\* model answers to the prompt of this request
SearchRequests ==
    [pair : {P_a_bc}, query : {Q_rooms}, llm : SessionReplies, override : {Null}]
    \cup [pair : {P_a_bc}, query : {Q_rooms, Q_private}, llm : OverrideReplies,
          override : Overrides]
    \cup [pair : {P_ab_c, P_a_c}, query : {Q_rooms}, llm : OtherReplies, override : {Null}]
    \cup [pair : {P_ab_c, P_a_c}, query : {Q_rooms}, llm : {[kind |-> "error"]},
          override : {JBool(FALSE)}]

\* the search requests during which one call fails
FaultRequests ==
    [pair : {P_a_bc}, query : {Q_rooms}, llm : FaultReplies, override : {Null}]
    \cup [pair : {P_a_bc}, query : {Q_rooms}, llm : {[kind |-> "error"]},
          override : {JBool(TRUE)}]

Pages == [size : {10}, offset : {0, 20}]

PageRequests ==
    [pair : {P_a_bc}, query : {Q_rooms}, llm : FaultReplies, override : {Null}]

EndpointRequests ==
    [pair : Pairs, query : {Q_rooms}, llm : {[kind |-> "error"]}, override : {JBool(TRUE)}]

SearchFaults == {"load", "save_get", "put_rejected", "put_raises", "engine"}
StoreFaults  == {"load", "save_get", "put_rejected", "put_raises"}
ResetFaults  == {"save_get", "put_rejected", "put_raises"}

ResetRequests ==
    [pair : Pairs, fault : {"none"}] \cup [pair : {P_a_bc}, fault : ResetFaults]

DeleteRequests ==
    [pair : Pairs, answered : {TRUE}] \cup [pair : {P_a_bc}, answered : {FALSE}]

(***************************************************************************)
(* State.  ctx, query, reply, ret, ncalls: one conversation held by a      *)
(* caller of parse_query_with_llm.  index: the session store; now: the     *)
(* number of requests served, used as the clock; last: the last request    *)
(* and what it did; supplied: per document, the keywords the deltas of its *)
(* search turns carried since its last reset or delete; store_failed: a    *)
(* store call has failed in some request.                                  *)
(***************************************************************************)
VARIABLES ctx, query, reply, ret, ncalls
VARIABLES index, now, last, supplied, store_failed
\* arrived: the history entries of the save_memory calls whose put was accepted
VARIABLES arrived
\* fstate: a FilterState with the order of its keyword list; plan: what
\* build_opensearch_query returned for it
VARIABLES fstate, plan
\* scoring: a hit and the max_score of its response; card: what format_result
\* made of it
VARIABLES scoring, card
\* pc: where each request of OverlapSpec stands in search(); local: its local
\* variables; writes: the requests whose put the store accepted, in order
VARIABLES pc, local, writes
\* listings: the documents of the listing index; pass: where one pass of the
\* embedding backfill stands, with the local variables of process_once
VARIABLES listings, pass

mvars == <<ctx, query, reply, ret, ncalls>>
svars == <<index, now, last, supplied, store_failed>>
cvars == <<fstate, plan>>
fvars == <<scoring, card>>
ovars == <<pc, local, writes>>
bvars == <<listings, pass>>
zvars == <<scoring, card, pc, local, writes, listings, pass>>
xvars == <<arrived, fstate, plan, zvars>>
vars  == <<ctx, query, reply, ret, ncalls, index, now, last, supplied, store_failed, arrived, fstate, plan, scoring, card, pc, local, writes, listings, pass>>

NoPlan == [absent |-> TRUE]
NoCard == [absent |-> TRUE]

Procs == {1, 2}

\* the local variables of search() before the request started
NoLocal ==
    [ memory |-> create_empty_memory, parsed |-> create_empty_memory,
      doc |-> [absent |-> TRUE], put |-> "none", engine |-> "none",
      os_query |-> [absent |-> TRUE] ]

NoOverlap ==
    /\ pc = [p \in Procs |-> "idle"]
    /\ local = [p \in Procs |-> NoLocal]
    /\ writes = <<>>

NoFormat ==
    /\ scoring = [hit |-> <<>>, max_score |-> JFloat(10)]
    /\ card = NoCard

\* no backfill pass has been started, and the listing index is empty
NoPass ==
    [ state |-> "closed", pit |-> <<>>, search_after |-> 0, hits |-> <<>>,
      batch_texts |-> <<>>, batch_meta |-> <<>>, total_processed |-> 0 ]

NoBackfill ==
    /\ listings = <<>>
    /\ pass = NoPass

\* the variables of the other specifications before anything happened
RestInit == NoFormat /\ NoOverlap /\ NoBackfill

NoRequest ==
    [ op |-> "none", user_id |-> <<>>, session_id |-> <<>>, query |-> <<>>,
      llm |-> [kind |-> "none"], override |-> Null, fault |-> "none",
      memory |-> create_empty_memory, parsed |-> create_empty_memory,
      saved |-> FALSE, compiled |-> FALSE, raised |-> FALSE,
      os_query |-> build_opensearch_query(create_empty_memory, <<>>, DEFAULT_SIZE, DEFAULT_OFFSET),
      response |-> Null, engine_calls |-> 0,
      size |-> DEFAULT_SIZE, offset |-> DEFAULT_OFFSET ]

Init ==
    /\ ctx = create_empty_memory
    /\ query = <<>>
    /\ reply = [kind |-> "none"]
    /\ ret = Returns(create_empty_memory)
    /\ ncalls = 0
    /\ index = [d \in DocIds |-> NoDoc]
    /\ now = 0
    /\ last = NoRequest
    /\ supplied = [d \in DocIds |-> {}]
    /\ store_failed = FALSE
    /\ arrived = <<>>
    /\ fstate = [parsed |-> create_empty_memory, keywords |-> <<>>]
    /\ plan = NoPlan
    /\ RestInit

(***************************************************************************)
(* MergeSpec: one conversation, turn after turn, through                   *)
(* parse_query_with_llm; the state a turn returns is the next context.     *)
(***************************************************************************)
\* one call parse_query_with_llm(q, <the state of the conversation>)
Call(q, r) ==
    /\ ncalls < MaxCalls
    /\ ctx' = ret.value
    /\ query' = q
    /\ reply' = r
    /\ ret' = parse_query_with_llm(q, ret.value, r)
    /\ ncalls' = ncalls + 1
    /\ UNCHANGED <<svars, xvars>>

ModelAnswersObject ==
    \/ \E r \in ObjectReplies : Call(Q_rooms, r)
    \/ \E r \in PrivateReplies : Call(Q_private, r)

ModelAnswersNonObject ==
    \E r \in NonObjectReplies : Call(Q_rooms, r)

ModelFails ==
    \E r \in LlmFailures : Call(Q_rooms, r) \/ Call(Q_private, r)

MergeNext == ModelAnswersObject \/ ModelAnswersNonObject \/ ModelFails

MergeSpec == Init /\ [][MergeNext]_vars

(***************************************************************************)
(* Spec: requests served one after the other against the session store     *)
(***************************************************************************)
\* the keywords list the delta of a turn carries
KeywordsOf(parsed) ==
    IF ~parsed.raised /\ IsDict(parsed.value) /\ IsList(Get(parsed.value.d, "keywords"))
    THEN {parsed.value.d["keywords"].items[i] :
              i \in 1..Len(parsed.value.d["keywords"].items)}
    ELSE {}

SuppliedKeywords(llm) ==
    IF llm.kind = "json" THEN KeywordsOf(extract_json(llm.value)) ELSE {}

\* what a call of search leaves behind; r is what search did
Served(r, p, t, size, offset, fault) ==
    /\ index' = r.index
    /\ last' = [ op |-> "search", user_id |-> p.user_id,
                 session_id |-> p.session_id, query |-> t.query,
                 llm |-> t.llm, override |-> t.override, fault |-> fault,
                 memory |-> r.memory, parsed |-> r.parsed,
                 saved |-> r.saved, compiled |-> r.compiled,
                 raised |-> r.raised, os_query |-> r.os_query,
                 response |-> IF r.raised THEN Null ELSE r.value,
                 engine_calls |-> r.engine_calls,
                 size |-> size, offset |-> offset ]

\* one call search(query, user_id, session_id, size, offset, override)
Search(p, t, size, offset, fault) ==
    /\ now < MaxTurns
    /\ Served(search(index, now + 1, t.query, p.user_id, p.session_id,
                     size, offset, t.override, t.llm, fault),
              p, t, size, offset, fault)
    /\ supplied' = [supplied EXCEPT ![doc_id(p.user_id, p.session_id)] =
                                         @ \cup SuppliedKeywords(t.llm)]
    /\ store_failed' = (store_failed \/ fault \in StoreFaults)
    /\ now' = now + 1
    /\ UNCHANGED <<mvars, xvars>>

\* size and offset left to their defaults
SearchTurn ==
    \E t \in SearchRequests : Search(t.pair, t, DEFAULT_SIZE, DEFAULT_OFFSET, "none")

SearchTurnWithFault ==
    \E t \in FaultRequests : \E f \in SearchFaults :
        Search(t.pair, t, DEFAULT_SIZE, DEFAULT_OFFSET, f)

\* a page is asked for
SearchPage ==
    \E t \in PageRequests : \E g \in Pages : Search(t.pair, t, g.size, g.offset, "none")

\* POST /search (src/api/main.py 106-177): request.offset is read to build the
\* arguments of search(), SearchRequest has no such field, the AttributeError is
\* turned into a 500 by the handler's except; search() is never entered.
search_listings(p, t) ==
    /\ now < MaxTurns
    /\ last' = [NoRequest EXCEPT !.op = "search_listings", !.user_id = p.user_id,
                                 !.session_id = p.session_id, !.query = t.query,
                                 !.override = t.override, !.raised = TRUE]
    /\ now' = now + 1
    /\ UNCHANGED <<index, supplied, store_failed>>
    /\ UNCHANGED <<mvars, xvars>>

SearchEndpoint == \E t \in EndpointRequests : search_listings(t.pair, t)

\* POST /session/{session_id}/reset (src/api/main.py 267-277)
reset_session(p, fault) ==
    /\ now < MaxTurns
    /\ LET put == CASE fault = "put_rejected" -> "rejected"
                    [] fault = "put_raises"   -> "raises"
                    [] OTHER                  -> "ok"
           r == save_memory(index, now + 1, p.user_id, p.session_id,
                            create_empty_memory, <<>>, fault # "save_get", put)
       IN  /\ index' = r.index
           /\ last' = [NoRequest EXCEPT !.op = "reset", !.user_id = p.user_id,
                                        !.session_id = p.session_id, !.fault = fault,
                                        !.saved = (put = "ok"), !.raised = r.raised]
    /\ supplied' = [supplied EXCEPT ![doc_id(p.user_id, p.session_id)] = {}]
    /\ store_failed' = (store_failed \/ fault # "none")
    /\ now' = now + 1
    /\ UNCHANGED <<mvars, xvars>>

ResetSession == \E t \in ResetRequests : reset_session(t.pair, t.fault)

\* DELETE /session/{session_id} (src/api/main.py 253-264)
delete_session_endpoint(p, answered) ==
    /\ now < MaxTurns
    /\ LET r == delete_memory(index, p.user_id, p.session_id, answered)
       IN  /\ index' = r.index
           /\ last' = [NoRequest EXCEPT !.op = "delete", !.user_id = p.user_id,
                                        !.session_id = p.session_id,
                                        !.fault = IF answered THEN "none" ELSE "delete",
                                        !.raised = ~r.value]
    /\ supplied' = [supplied EXCEPT ![doc_id(p.user_id, p.session_id)] = {}]
    /\ store_failed' = (store_failed \/ ~answered)
    /\ now' = now + 1
    /\ UNCHANGED <<mvars, xvars>>

DeleteSession == \E t \in DeleteRequests : delete_session_endpoint(t.pair, t.answered)

Next ==
    \/ SearchTurn
    \/ SearchTurnWithFault
    \/ SearchPage
    \/ SearchEndpoint
    \/ ResetSession
    \/ DeleteSession

Spec == Init /\ [][Next]_vars

(***************************************************************************)
(* HistorySpec: save_memory called again and again on one session whose    *)
(* stored history is about to reach the cap                                *)
(***************************************************************************)
MaxSaves == 2

\* the history after n saved utterances
Utterances(n) == [i \in 1..n |-> [q |-> Q_rooms, ts |-> i]]

HistoryLengths == {HISTORY_CAP - 1, HISTORY_CAP}

\* the document of the session after n searches without failure
SessionAfter(n) ==
    [ user_id |-> P_a_bc.user_id, session_id |-> P_a_bc.session_id,
      filters |-> create_empty_memory, query_history |-> Utterances(n),
      created_at |-> 1, updated_at |-> n ]

HistoryInit ==
    /\ ctx = create_empty_memory
    /\ query = <<>>
    /\ reply = [kind |-> "none"]
    /\ ret = Returns(create_empty_memory)
    /\ ncalls = 0
    /\ \E n \in HistoryLengths :
          /\ index = [d \in DocIds |->
                        IF d = doc_id(P_a_bc.user_id, P_a_bc.session_id)
                        THEN SessionAfter(n) ELSE NoDoc]
          /\ now = n
          /\ arrived = Utterances(n)
    /\ last = NoRequest
    /\ supplied = [d \in DocIds |-> {}]
    /\ store_failed = FALSE
    /\ fstate = [parsed |-> create_empty_memory, keywords |-> <<>>]
    /\ plan = NoPlan
    /\ RestInit

SavedFilters == {create_empty_memory, Put(create_empty_memory, "rooms", JInt(2))}
SavedQueries == {Q_rooms, Q_private}

SaveCalls        == [filters : SavedFilters, q : SavedQueries, get_ok : {TRUE}, put : {"ok"}]
SaveCallsNoQuery == [filters : SavedFilters, q : {<<>>}, get_ok : BOOLEAN, put : {"ok"}]
SaveCallsGetFails == [filters : SavedFilters, q : SavedQueries, get_ok : {FALSE}, put : {"ok"}]
SaveCallsPutFails ==
    [filters : SavedFilters, q : SavedQueries, get_ok : BOOLEAN, put : {"rejected", "raises"}]

\* one call save_memory(user_id, session_id, filters, q) on the session
SaveMemory(t) ==
    /\ now < HISTORY_CAP + MaxSaves
    /\ index' = save_memory(index, now + 1, P_a_bc.user_id, P_a_bc.session_id,
                            t.filters, t.q, t.get_ok, t.put).index
    /\ arrived' = IF t.put = "ok" /\ Len(t.q) > 0
                  THEN Append(arrived, [q |-> t.q, ts |-> now + 1])
                  ELSE arrived
    /\ now' = now + 1
    /\ store_failed' = (store_failed \/ ~t.get_ok \/ t.put # "ok")
    /\ UNCHANGED <<mvars, last, supplied, cvars, zvars>>

SaveUtterance         == \E t \in SaveCalls : SaveMemory(t)
SaveWithoutUtterance  == \E t \in SaveCallsNoQuery : SaveMemory(t)
SaveUtteranceGetFails == \E t \in SaveCallsGetFails : SaveMemory(t)
SaveUtterancePutFails == \E t \in SaveCallsPutFails : SaveMemory(t)

HistoryNext ==
    \/ SaveUtterance
    \/ SaveWithoutUtterance
    \/ SaveUtteranceGetFails
    \/ SaveUtterancePutFails

HistorySpec == HistoryInit /\ [][HistoryNext]_vars

(***************************************************************************)
(* CompileSpec: build_opensearch_query applied to a FilterState            *)
(***************************************************************************)
SectorSpellings == {<<"S","e","c","t","o","r"," ">>, <<"s","e","c","t","o","r"," ">>, <<"S","e","c","t","o","r","u","l"," ">>}
SectorNumbers   == {1, 2, 3, 4, 5, 6, 12}

SectorLocations == {sp \o IntToStr(n) : sp \in SectorSpellings, n \in SectorNumbers}

OtherLocations ==
    {<<"M","i","l","i","t","a","r","i">>, <<"S","E","C","T","O","R"," ","3">>, <<"s","e","c","t","o","r","u","l","3">>, <<"S","e","c","t","o","r">>, <<"P","i","a","t","a"," ","V","i","c","t","o","r","i","e","i"," ","1">>}

LocationStates ==
    {Put(Put(create_empty_memory, "location", JStr(l)), "city", c) :
        l \in SectorLocations \cup OtherLocations, c \in {Null, JStr(<<"B","u","c","u","r","e","s","t","i">>)}}

StoredRooms == {Null, JInt(1), JInt(2), JInt(3), JInt(4), JInt(5), JBool(TRUE)}

RoomsStates ==
    {Put(Put(Put(Put(create_empty_memory, "rooms", r), "price_min", lo), "price_max", hi),
         "transaction", tr) :
        r \in StoredRooms, lo \in {Null, JInt(300)}, hi \in {Null, JInt(600)},
        tr \in {Null, JStr(S_Inchiriere)}}

FeatureStates == {Null, JStr(S_WANT), JStr(S_EXCLUDE)}

FeaturesStates ==
    {Put(create_empty_memory, "features", f) : f \in [FeatureSet -> FeatureStates]}

AgencyStates ==
    {Put(p, "exclude_agencies", JBool(b)) :
        b \in BOOLEAN,
        p \in {create_empty_memory,
               Put(create_empty_memory, "features",
                   [f \in FeatureSet |-> IF f = "parcare" THEN JStr(S_WANT) ELSE Null]),
               Put(create_empty_memory, "features",
                   [f \in FeatureSet |-> IF f = "mobilat" THEN JStr(S_EXCLUDE) ELSE Null]),
               Put(create_empty_memory, "rooms", JInt(2))}}

KeywordSets == {{}, {JStr(<<"m","o","d","e","r","n">>)}, {JStr(<<"m","o","d","e","r","n">>), JStr(<<"b","a","l","c","o","n">>)}}

KeywordStates ==
    {Put(Put(create_empty_memory, "keywords", kw), "property_type", pt) :
        kw \in KeywordSets, pt \in {Null, JStr(S_Apartamente)}}

\* states with a location, rooms, keywords and a feature at once
MixedStates ==
    {Put(Put(Put(Put(create_empty_memory, "location", JStr(l)), "rooms", JInt(2)),
             "keywords", kw),
         "features", [f \in FeatureSet |-> IF f = "animale" THEN JStr(S_WANT) ELSE Null]) :
        l \in {<<"M","i","l","i","t","a","r","i">>, <<"S","e","c","t","o","r"," ","3">>}, kw \in KeywordSets}

FilterStates ==
    LocationStates \cup RoomsStates \cup FeaturesStates \cup AgencyStates \cup KeywordStates
        \cup MixedStates

\* the lists that hold the elements of a set, each once
ListsOf(set) ==
    {l \in [1..Cardinality(set) -> set] :
        \A i, j \in 1..Cardinality(set) : i # j => l[i] # l[j]}

CompileInputs ==
    UNION {{[parsed |-> p, keywords |-> l] : l \in ListsOf(p["keywords"])} : p \in FilterStates}

CompileInit ==
    /\ ctx = create_empty_memory
    /\ query = <<>>
    /\ reply = [kind |-> "none"]
    /\ ret = Returns(create_empty_memory)
    /\ ncalls = 0
    /\ index = [d \in DocIds |-> NoDoc]
    /\ now = 0
    /\ last = NoRequest
    /\ supplied = [d \in DocIds |-> {}]
    /\ store_failed = FALSE
    /\ arrived = <<>>
    /\ fstate \in CompileInputs
    /\ plan = NoPlan
    /\ RestInit

\* one call build_opensearch_query(parsed, size, offset)
Compile(size, offset) ==
    /\ plan = NoPlan
    /\ plan' = build_opensearch_query(fstate.parsed, fstate.keywords, size, offset)
    /\ UNCHANGED <<mvars, svars, arrived, fstate, zvars>>

CompileDefault == Compile(DEFAULT_SIZE, DEFAULT_OFFSET)
CompilePage    == \E t \in Pages : Compile(t.size, t.offset)

CompileNext ==
    \/ CompileDefault
    \/ CompilePage

CompileSpec == CompileInit /\ [][CompileNext]_vars

(***************************************************************************)
(* FormatSpec: the relevance score of format_result                        *)
(* (src/api/search.py 695-702). Scores are floats with one decimal; on the *)
(* scores drawn here the binary floating-point quotient truncates to the   *)
(* same integer as the exact quotient.                                     *)
(***************************************************************************)
\* a number in tenths
Tenths(v) == IF v.k = "int" THEN 10 * v.n ELSE v.tenths

\* int(n / d) for d > 0: truncation toward zero
Trunc(n, d) == IF n >= 0 THEN n \div d ELSE 0 - ((0 - n) \div d)

\* round(n / d) for d > 0: to the nearest integer, a tie to the even one
Round(n, d) ==
    IF 2 * (n % d) < d THEN n \div d
    ELSE IF 2 * (n % d) > d THEN (n \div d) + 1
    ELSE IF (n \div d) % 2 = 0 THEN n \div d ELSE (n \div d) + 1

\* min(100, max(0, score))
Clamp(score) == IF score < 0 THEN 0 ELSE IF score > 100 THEN 100 ELSE score

\* line 700: hit.get("_score", 0)
raw_score(hit) == IF "_score" \in DOMAIN hit THEN hit["_score"] ELSE JInt(0)

\* variant of format_score without line 702
format_score_unclamped(hit, max_score) ==
    IF Tenths(max_score) > 0
    THEN Trunc(Tenths(raw_score(hit)) * 100, Tenths(max_score))
    ELSE 0

\* lines 700-702: the score of the SearchResult
format_score(hit, max_score) ==
    Clamp(IF Tenths(max_score) > 0
          THEN Trunc(Tenths(raw_score(hit)) * 100, Tenths(max_score))
          ELSE 0)

\* lines 695-759: the SearchResult, of which the score is kept
format_result(hit, max_score) == [score |-> format_score(hit, max_score)]

RawScores ==
    {JFloat(t) : t \in {0 - 5, 0, 1, 2, 3, 5, 7, 10, 14, 15, 20, 29, 30, 45}} \cup {JInt(1)}

Hits == {[x \in {"_score"} |-> s] : s \in RawScores} \cup {<<>>}

MaxScores == {JFloat(t) : t \in {0 - 10, 0, 1, 3, 7, 10, 15, 30}}

FormatInit ==
    /\ ctx = create_empty_memory
    /\ query = <<>>
    /\ reply = [kind |-> "none"]
    /\ ret = Returns(create_empty_memory)
    /\ ncalls = 0
    /\ index = [d \in DocIds |-> NoDoc]
    /\ now = 0
    /\ last = NoRequest
    /\ supplied = [d \in DocIds |-> {}]
    /\ store_failed = FALSE
    /\ arrived = <<>>
    /\ fstate = [parsed |-> create_empty_memory, keywords |-> <<>>]
    /\ plan = NoPlan
    /\ scoring \in [hit : Hits, max_score : MaxScores]
    /\ card = NoCard
    /\ NoOverlap
    /\ NoBackfill

\* one call format_result(hit, max_score)
FormatResult ==
    /\ card = NoCard
    /\ card' = format_result(scoring.hit, scoring.max_score)
    /\ UNCHANGED <<mvars, svars, arrived, cvars, scoring, ovars, bvars>>

FormatNext == FormatResult

FormatSpec == FormatInit /\ [][FormatNext]_vars

(***************************************************************************)
(* OverlapSpec: two calls of search() for one session key, their store and *)
(* engine requests interleaved (src/api/search.py 857-922, 131-190)        *)
(***************************************************************************)
\* the session both requests address, and what it holds when they start
StoredSession ==
    [ user_id |-> P_a_bc.user_id, session_id |-> P_a_bc.session_id,
      filters |-> Put(create_empty_memory, "keywords", {JStr(<<"b","a","l","c","o","n">>)}),
      query_history |-> <<[q |-> Q_rooms, ts |-> 1]>>,
      created_at |-> 1, updated_at |-> 1 ]

SessionKey == doc_id(P_a_bc.user_id, P_a_bc.session_id)

StoredBefore == {NoDoc, StoredSession}

\* the utterance of each request and what the model may answer to it
Utterance == <<Q_rooms, Q_private>>

FirstReplies  == {LlmJson(JDict("price_min" :> JInt(600))), [kind |-> "error"]}
SecondReplies ==
    {LlmJson(JDict("rooms" :> JInt(2))), LlmJson(JDict("location" :> JStr(<<"M","i","l","i","t","a","r","i">>)))}

Step(p, from, to) ==
    /\ pc[p] = from
    /\ pc' = [pc EXCEPT ![p] = to]

OverlapInit ==
    /\ ctx = create_empty_memory
    /\ query = <<>>
    /\ reply = [kind |-> "none"]
    /\ ret = Returns(create_empty_memory)
    /\ ncalls = 0
    /\ \E stored \in StoredBefore :
          index = [d \in DocIds |-> IF d = SessionKey THEN stored ELSE NoDoc]
    /\ now = 1
    /\ last = NoRequest
    /\ supplied = [d \in DocIds |-> {}]
    /\ store_failed = FALSE
    /\ arrived = <<>>
    /\ fstate = [parsed |-> create_empty_memory, keywords |-> <<>>]
    /\ plan = NoPlan
    /\ NoFormat
    /\ pc = [p \in Procs |-> "load"]
    /\ local = [p \in Procs |-> NoLocal]
    /\ writes = <<>>
    /\ NoBackfill

\* line 878: memory = load_memory(user_id, session_id)
Load(p, get_ok) ==
    /\ Step(p, "load", "parse")
    /\ local' = [local EXCEPT ![p].memory =
                    load_memory(index, P_a_bc.user_id, P_a_bc.session_id, get_ok)]
    /\ UNCHANGED <<mvars, svars, arrived, cvars, fvars, writes, bvars>>

\* lines 881-885: parsed = parse_query_with_llm(user_query, memory), no override
Parse(p, llm) ==
    /\ Step(p, "parse", "save_get")
    /\ local' = [local EXCEPT ![p].parsed =
                    parse_query_with_llm(Utterance[p], local[p].memory, llm).value]
    /\ UNCHANGED <<mvars, svars, arrived, cvars, fvars, writes, bvars>>

\* line 888, save_memory up to the document it builds (151-182)
SaveGet(p, get_ok) ==
    /\ Step(p, "save_get", "save_put")
    /\ now' = now + 1
    /\ local' = [local EXCEPT ![p].doc =
                    save_memory_doc(index, now + 1, P_a_bc.user_id, P_a_bc.session_id,
                                    local[p].parsed, Utterance[p], get_ok)]
    /\ UNCHANGED <<mvars, index, last, supplied, store_failed, arrived, cvars, fvars, writes, bvars>>

\* line 888, the put of save_memory (184-190): an exception leaves search()
SavePut(p, put) ==
    /\ Step(p, "save_put", IF put = "raises" THEN "raised" ELSE "execute")
    /\ index' = save_memory_put(index, SessionKey, local[p].doc, put).index
    /\ local' = [local EXCEPT ![p].put = put]
    /\ writes' = IF put = "ok" THEN Append(writes, p) ELSE writes
    /\ UNCHANGED <<mvars, now, last, supplied, store_failed, arrived, cvars, fvars, bvars>>

\* lines 891-892: build_opensearch_query, then execute_search
Execute(p, engine) ==
    /\ Step(p, "execute", IF engine = "ok" THEN "returned" ELSE "raised")
    /\ local' = [local EXCEPT ![p].engine = engine,
                              ![p].os_query =
                                  build_opensearch_query(local[p].parsed,
                                                         ListOf(local[p].parsed["keywords"]),
                                                         DEFAULT_SIZE, DEFAULT_OFFSET)]
    /\ UNCHANGED <<mvars, svars, arrived, cvars, fvars, writes, bvars>>

PutOutcomes    == {"ok", "rejected", "raises"}
EngineOutcomes == {"ok", "failed"}

LoadMemory      == \E p \in Procs : \E get_ok \in BOOLEAN : Load(p, get_ok)
ParseFirst      == \E llm \in FirstReplies : Parse(1, llm)
ParseSecond     == \E llm \in SecondReplies : Parse(2, llm)
SaveMemoryGet   == \E p \in Procs : \E get_ok \in BOOLEAN : SaveGet(p, get_ok)
SaveMemoryPut   == \E p \in Procs : \E put \in PutOutcomes : SavePut(p, put)
ExecuteSearch   == \E p \in Procs : \E engine \in EngineOutcomes : Execute(p, engine)

OverlapNext ==
    \/ LoadMemory
    \/ ParseFirst
    \/ ParseSecond
    \/ SaveMemoryGet
    \/ SaveMemoryPut
    \/ ExecuteSearch

OverlapSpec == OverlapInit /\ [][OverlapNext]_vars

(***************************************************************************)
(* BackfillSpec: one pass of the embedding backfill over the listing index *)
(* (src/opensearch-connector/3_update_embeddings_ollama_pit.py 96-305)     *)
(***************************************************************************)
\* documents in the index, documents per page, texts per embedding call
NListings == 4
SCROLL_SIZE == 3
BATCH_SIZE == 2

ListingIds == 1..NListings

NoVector == [none |-> TRUE]

\* the vector the embedding model returns for a text
Embedding(text) == [of |-> text]

\* src.get(k) or ""
GetOrEmpty(src, k) == IF k \in DOMAIN src /\ Truthy(src[k]) THEN src[k].s ELSE <<>>

build_text_for_doc(src) ==
    Strip((IF GetOrEmpty(src, "driver_title") # <<>>
           THEN GetOrEmpty(src, "driver_title") ELSE GetOrEmpty(src, "name"))
          \o <<"\n", "\n">> \o GetOrEmpty(src, "description"))

\* call_embedding_model(texts); up: the model answered the request
call_embedding_model(texts, up) ==
    IF texts = <<>> THEN [none |-> FALSE, vectors |-> <<>>]
    ELSE IF up THEN [none |-> FALSE, vectors |-> [i \in 1..Len(texts) |-> Embedding(texts[i])]]
    ELSE [none |-> TRUE, vectors |-> <<>>]

\* the document after the partial update of one entry of updates
UpdatedDoc(doc, u) ==
    [doc EXCEPT !.embedding_status = u.status,
                !.listing_vector = IF u.vector # NoVector THEN u.vector ELSE @]

RECURSIVE ApplyUpdates(_, _)
ApplyUpdates(docs, updates) ==
    IF updates = <<>> THEN docs
    ELSE ApplyUpdates([docs EXCEPT ![Head(updates).id] = UpdatedDoc(@, Head(updates))],
                      Tail(updates))

\* bulk_update_vectors(updates); accepted: the bulk request succeeded without
\* item errors.  A refused request is taken to have written nothing.
bulk_update_vectors(docs, updates, accepted) ==
    IF updates = <<>> THEN [ok |-> TRUE, docs |-> docs]
    ELSE IF accepted THEN [ok |-> TRUE, docs |-> ApplyUpdates(docs, updates)]
    ELSE [ok |-> FALSE, docs |-> docs]

Min2(a, b) == IF a <= b THEN a ELSE b

\* lines 252-253: failed_updates
failed_updates(batch_meta) ==
    [i \in 1..Len(batch_meta) |-> [id |-> batch_meta[i].id, vector |-> NoVector, status |-> "failed"]]

\* lines 256-263: for meta, vec in zip(batch_meta, vectors)
zip_updates(batch_meta, vectors) ==
    [i \in 1..Min2(Len(batch_meta), Len(vectors)) |->
        IF vectors[i] = <<>>
        THEN [id |-> batch_meta[i].id, vector |-> batch_meta[i].vector, status |-> "fatal"]
        ELSE [id |-> batch_meta[i].id, vector |-> vectors[i], status |-> "success"]]

\* lines 241-271: flush_batch(); its result is the index and the new
\* total_processed
flush_written(docs, total, updates, accepted) ==
    [ docs |-> bulk_update_vectors(docs, updates, accepted).docs,
      total |-> IF bulk_update_vectors(docs, updates, accepted).ok
                THEN total + Len(updates) ELSE total ]

flush_batch(docs, total, batch_texts, batch_meta, up, accepted) ==
    IF batch_meta = <<>> THEN [docs |-> docs, total |-> total]
    ELSE IF call_embedding_model(batch_texts, up).none
    THEN [docs |-> bulk_update_vectors(docs, failed_updates(batch_meta), accepted).docs,
          total |-> total]
    ELSE flush_written(docs, total,
                       zip_updates(batch_meta, call_embedding_model(batch_texts, up).vectors),
                       accepted)

\* lines 204-213: the documents the pass asks for
NeedsEmbedding(doc) == doc.embedding_status = "failed" \/ doc.listing_vector = NoVector

RECURSIVE FirstIds(_, _)
FirstIds(ids, n) ==
    IF ids = {} \/ n = 0 THEN <<>>
    ELSE <<CHOOSE m \in ids : \A k \in ids : m <= k>>
         \o FirstIds(ids \ {CHOOSE m \in ids : \A k \in ids : m <= k}, n - 1)

\* lines 203-239: one page of the point-in-time view, in _shard_doc order
PitPage(pit, search_after) ==
    FirstIds({i \in DOMAIN pit : i > search_after /\ NeedsEmbedding(pit[i])}, SCROLL_SIZE)

\* the _source of the documents of the index
Sources ==
    { <<>>,
      [x \in {"description", "name"} |-> IF x = "name" THEN Null ELSE JStr(<<" ">>)],
      [x \in {"driver_title"} |-> JStr(<<"A">>)],
      [x \in {"name", "description"} |-> IF x = "name" THEN JStr(<<"B">>) ELSE JStr(<<"C">>)] }

FreshListing(src) == [src |-> src, embedding_status |-> "none", listing_vector |-> NoVector]

EmbeddedListing ==
    [ src |-> [x \in {"driver_title"} |-> JStr(<<"D">>)], embedding_status |-> "success",
      listing_vector |-> Embedding(<<"D">>) ]

StoredListings == {FreshListing(src) : src \in Sources} \cup {EmbeddedListing}

BackfillInit ==
    /\ ctx = create_empty_memory
    /\ query = <<>>
    /\ reply = [kind |-> "none"]
    /\ ret = Returns(create_empty_memory)
    /\ ncalls = 0
    /\ index = [d \in DocIds |-> NoDoc]
    /\ now = 0
    /\ last = NoRequest
    /\ supplied = [d \in DocIds |-> {}]
    /\ store_failed = FALSE
    /\ arrived = <<>>
    /\ fstate = [parsed |-> create_empty_memory, keywords |-> <<>>]
    /\ plan = NoPlan
    /\ NoFormat
    /\ NoOverlap
    /\ listings \in [ListingIds -> StoredListings]
    /\ pass = NoPass

BackfillFrame == UNCHANGED <<mvars, svars, arrived, cvars, fvars, ovars>>

\* lines 192-195: open_pit(); the view is the index as it is now
OpenPit(opened) ==
    /\ pass.state = "closed"
    /\ pass' = IF opened THEN [pass EXCEPT !.state = "open", !.pit = listings]
               ELSE [pass EXCEPT !.state = "done"]
    /\ UNCHANGED listings
    /\ BackfillFrame

\* lines 201-239: the search of one page; found: the request succeeded
SearchPit(found) ==
    /\ pass.state = "open"
    /\ pass' = IF ~found \/ PitPage(pass.pit, pass.search_after) = <<>>
               THEN [pass EXCEPT !.state = "done"]
               ELSE [pass EXCEPT !.state = "page",
                                 !.hits = PitPage(pass.pit, pass.search_after),
                                 !.search_after = PitPage(pass.pit, pass.search_after)[Len(PitPage(pass.pit, pass.search_after))],
                                 !.batch_texts = <<>>, !.batch_meta = <<>>]
    /\ UNCHANGED listings
    /\ BackfillFrame

\* lines 273-287: one iteration of `for hit in hits`
TakeHit(id, text, up, accepted) ==
    IF text = <<>>
    THEN /\ pass' = [pass EXCEPT !.hits = Tail(@),
                        !.batch_meta = Append(@, [id |-> id, vector |-> NoVector, status |-> "fatal"])]
         /\ UNCHANGED listings
    ELSE IF Len(pass.batch_texts) + 1 < BATCH_SIZE
    THEN /\ pass' = [pass EXCEPT !.hits = Tail(@),
                        !.batch_texts = Append(@, text),
                        !.batch_meta = Append(@, [id |-> id, vector |-> NoVector, status |-> "success"])]
         /\ UNCHANGED listings
    ELSE /\ listings' = flush_batch(listings, pass.total_processed, Append(pass.batch_texts, text),
                                    Append(pass.batch_meta, [id |-> id, vector |-> NoVector, status |-> "success"]),
                                    up, accepted).docs
         /\ pass' = [pass EXCEPT !.hits = Tail(@), !.batch_texts = <<>>, !.batch_meta = <<>>,
                        !.total_processed = flush_batch(listings, @, Append(pass.batch_texts, text),
                                    Append(pass.batch_meta, [id |-> id, vector |-> NoVector, status |-> "success"]),
                                    up, accepted).total]

NextHit(up, accepted) ==
    /\ pass.state = "page"
    /\ pass.hits # <<>>
    /\ TakeHit(Head(pass.hits), build_text_for_doc(pass.pit[Head(pass.hits)].src), up, accepted)
    /\ BackfillFrame

\* lines 289-291: flush remaining, then the next page
FlushRemaining(up, accepted) ==
    /\ pass.state = "page"
    /\ pass.hits = <<>>
    /\ listings' = flush_batch(listings, pass.total_processed, pass.batch_texts, pass.batch_meta, up, accepted).docs
    /\ pass' = [pass EXCEPT !.state = "open", !.batch_texts = <<>>, !.batch_meta = <<>>,
                   !.total_processed = flush_batch(listings, @, pass.batch_texts, pass.batch_meta, up, accepted).total]
    /\ BackfillFrame

Outcomes == BOOLEAN

BackfillNext ==
    \/ \E opened \in Outcomes : OpenPit(opened)
    \/ \E found \in Outcomes : SearchPit(found)
    \/ \E up \in Outcomes, accepted \in Outcomes : NextHit(up, accepted)
    \/ \E up \in Outcomes, accepted \in Outcomes : FlushRemaining(up, accepted)

BackfillSpec == BackfillInit /\ [][BackfillNext]_vars

(***************************************************************************)
(* Properties of the merge, stated on the last call of MergeSpec           *)
(***************************************************************************)
\* what json.loads returned in the last call (the model answered with JSON text)
Loaded == extract_json(reply.value)

\* the repaired completion loaded as a JSON object
AnsweredObject == reply.kind = "json" /\ ~Loaded.raised /\ IsDict(Loaded.value)

\* validate_parsed_result ran to its return statement
Merged == AnsweredObject /\ ~validate_raises(Loaded.value)

\* the delta of the last call (an object was answered)
Delta == Loaded.value.d

\* feature key f is not mentioned by delta d: no features object, or the key is not in it
FeatureAbsent(d, f) ==
    \/ "features" \notin DOMAIN d
    \/ ~IsDict(d["features"])
    \/ f \notin DOMAIN d["features"].d

\* the query text holds one of the private-sellers-only phrases
MentionsPrivateSellers(q) == \E kw \in exclude_keywords : Contains(Lower(q), kw)

SameKey(a, b, key) ==
    /\ (key \in DOMAIN a) = (key \in DOMAIN b)
    /\ key \in DOMAIN a => a[key] = b[key]

FrameOfScalarsKeywordsFeatures ==
    /\ \A f \in ScalarFields \cup {"keywords"} :
           f \notin DOMAIN Delta => ret.value[f] = ctx[f]
    /\ \A f \in FeatureSet :
           FeatureAbsent(Delta, f) => ret.value["features"][f] = ctx["features"][f]

\* C1 as stated: in the state validate_parsed_result returns, every field absent
\* from the delta (scalars, keywords, each feature key, exclude_agencies) has the
\* value it had in the prior state.
C1_AbsentFieldsUnchanged ==
    Merged =>
        /\ FrameOfScalarsKeywordsFeatures
        /\ "exclude_agencies" \notin DOMAIN Delta =>
               SameKey(ret.value, ctx, "exclude_agencies")

\* C1 amended: scalars, keywords and feature keys absent from the delta keep their
\* prior value; exclude_agencies, when absent from the delta, keeps its prior value
\* unless the query text holds a private-sellers-only phrase, and is then true.
C1_AbsentFieldsUnchangedButTextMatch ==
    Merged =>
        /\ FrameOfScalarsKeywordsFeatures
        /\ "exclude_agencies" \notin DOMAIN Delta =>
               IF MentionsPrivateSellers(query)
               THEN Get(ret.value, "exclude_agencies") = JBool(TRUE)
               ELSE SameKey(ret.value, ctx, "exclude_agencies")

\* a follow-up turn that mentions only price_max keeps the rooms set before
C1_Witness ==
    /\ Merged
    /\ DOMAIN Delta = {"price_max"}
    /\ ctx["rooms"] = JInt(2)
    /\ ret.value["rooms"] = JInt(2)
    /\ ret.value["price_max"] = JInt(600)
    /\ ctx["price_max"] = Null

\* C2 as stated: when the model call errors or times out, returns an empty
\* completion, text that is not JSON after repair, or a JSON value that is not an
\* object, parse_query_with_llm returns the prior state unchanged and raises nothing.
C2_FailOpen ==
    (reply.kind \in {"error", "empty", "malformed"}
        \/ (reply.kind = "json" /\ ~IsDict(reply.value)))
    => (~ret.raised /\ ret.value = ctx)

\* C2 amended: the same, the last case being a completion whose repaired text (cut
\* from the first "{" to the last "}") does not load or loads as a JSON value that
\* is not an object.
C2_FailOpenAfterRepair ==
    (reply.kind \in {"error", "empty", "malformed"}
        \/ (reply.kind = "json" /\ (Loaded.raised \/ ~IsDict(Loaded.value))))
    => (~ret.raised /\ ret.value = ctx)

\* a failed model call on a conversation that already holds filters
C2_Witness ==
    /\ \/ reply.kind = "error"
       \/ reply.kind = "json" /\ ~Loaded.raised /\ IsList(Loaded.value)
    /\ ctx["rooms"] = JInt(2)
    /\ ~ret.raised
    /\ ret.value = ctx

\* what the claim C4 calls a value its normalizer rejects
RejectedValue(d, f) ==
    /\ f \in DOMAIN d
    /\ CASE f = "rooms" ->
                \/ d[f].k = "int" /\ ~(1 <= d[f].n /\ d[f].n <= 5)
                \/ d[f].k \in {"str", "float"}
         [] f = "transaction" -> IsStr(d[f]) /\ Len(d[f].s) > 0
                                    /\ validate_transaction(d[f].s) = Null
         [] f = "property_type" -> IsStr(d[f]) /\ Len(d[f].s) > 0
                                    /\ validate_property_type(d[f].s) = Null
         [] f \in {"price_min", "price_max"} -> IsStr(d[f]) /\ ~IsIntLiteral(d[f].s)
         [] OTHER -> FALSE

\* a value that normalizes, and what it normalizes to
AcceptedValue(d, f) ==
    /\ f \in DOMAIN d
    /\ CASE f = "rooms" -> d[f].k = "int" /\ 1 <= d[f].n /\ d[f].n <= 5
         [] f = "transaction" -> IsStr(d[f]) /\ Len(d[f].s) > 0
                                    /\ validate_transaction(d[f].s) # Null
         [] f = "property_type" -> IsStr(d[f]) /\ Len(d[f].s) > 0
                                    /\ validate_property_type(d[f].s) # Null
         [] f \in {"price_min", "price_max"} -> d[f].k = "int" /\ d[f].n > 0
         [] f \in {"location", "city"} -> IsStr(d[f]) /\ Len(d[f].s) > 0
         [] OTHER -> FALSE

\* the delta carries scalar fields only, each with a rejected or a normalizing value
OnlyRejectedOrAccepted(d) ==
    /\ DOMAIN d \subseteq ScalarFields
    /\ \A f \in DOMAIN d : RejectedValue(d, f) \/ AcceptedValue(d, f)

NormalizedValue(d, f) ==
    CASE f = "transaction" -> validate_transaction(d[f].s)
      [] f = "property_type" -> validate_property_type(d[f].s)
      [] f = "location" -> JStr(strip_diacritics(d[f].s))
      [] f = "city" -> JStr(normalize_city(d[f].s))
      [] OTHER -> d[f]

\* C4: a value the normalizer rejects (rooms out of range or not an integer, an
\* unrecognized transaction or property type, a price that is not a number) leaves
\* its field at the prior value, every other field of the delta that normalizes is
\* still applied, and no error is raised.  Stated for deltas made of such values.
C4_RejectionIsFieldLocal ==
    (AnsweredObject /\ OnlyRejectedOrAccepted(Delta)) =>
        /\ ~ret.raised
        /\ \A f \in ScalarFields :
               RejectedValue(Delta, f) => ret.value[f] = ctx[f]
        /\ \A f \in ScalarFields :
               AcceptedValue(Delta, f) => ret.value[f] = NormalizedValue(Delta, f)

\* C5: from the empty state, after any sequence of merges, rooms is null or an
\* integer in 1..5.
C5_RoomsNullOrOneToFive ==
    ret.value["rooms"] \in {Null} \cup {JInt(n) : n \in 1..5}

LastDoc == doc_id(last.user_id, last.session_id)

\* the last request was a search whose model reply loaded as a JSON object
LastAnsweredObject ==
    /\ last.op = "search"
    /\ last.llm.kind = "json"
    /\ ~extract_json(last.llm.value).raised
    /\ IsDict(extract_json(last.llm.value).value)

LastDelta == extract_json(last.llm.value).value.d

\* the delta of the last request carries an explicit null for scalar field f
CarriesNull(f) ==
    LastAnsweredObject /\ f \in DOMAIN LastDelta /\ IsNull(LastDelta[f])

\* the delta of the last request carries an explicit null for feature key f
CarriesNullFeature(f) ==
    /\ LastAnsweredObject
    /\ ~FeatureAbsent(LastDelta, f)
    /\ IsNull(LastDelta["features"].d[f])

\* C3: for a session without reset, after any sequence of search turns the stored
\* keywords equal the union of all keyword lists the deltas of those turns carried
\* (per stored document; supplied starts afresh at a reset or delete; stated for
\* runs in which no store call failed).
C3_KeywordsAreUnionOfSupplied ==
    ~store_failed =>
        \A d \in DocIds :
            index[d] # NoDoc => index[d].filters["keywords"] = supplied[d]

\* C6: across search turns, a scalar field or feature that holds a value becomes
\* null only in a turn whose delta explicitly carries null for it (stated for
\* turns in which no store or engine call failed: the state before the turn is
\* the one load_memory returned, the state after it is the one stored).
C6_ClearedOnlyByExplicitNull ==
    (last.op = "search" /\ last.fault = "none") =>
        LET before == last.memory
            after  == index[LastDoc].filters
        IN  /\ \A f \in ScalarFields :
                   (before[f] # Null /\ after[f] = Null) => CarriesNull(f)
            /\ \A f \in FeatureSet :
                   (before["features"][f] # Null /\ after["features"][f] = Null)
                       => CarriesNullFeature(f)

\* the step is a search turn, without uiOverride=false, on a document whose
\* FilterState has exclude_agencies true
SearchOnExcluding(d) ==
    /\ last'.op = "search"
    /\ doc_id(last'.user_id, last'.session_id) = d
    /\ last'.override # JBool(FALSE)
    /\ index[d] # NoDoc
    /\ Get(index[d].filters, "exclude_agencies") = JBool(TRUE)

StillExcluding(d) ==
    /\ index'[d] # NoDoc
    /\ Get(index'[d].filters, "exclude_agencies") = JBool(TRUE)

\* C8 as stated: once exclude_agencies is true in a session's stored FilterState,
\* it is still true after every later search turn that does not carry
\* uiOverride=false, whatever the delta and the query text.
C8_StickyExclusion ==
    [][\A d \in DocIds : SearchOnExcluding(d) => StillExcluding(d)]_vars

\* C8 amended: the same for every later search turn whose read of the session
\* store succeeds; a turn whose read fails starts from the empty state.
C8_StickyExclusionWhenRead ==
    [][\A d \in DocIds :
          (SearchOnExcluding(d) /\ last'.fault # "load") => StillExcluding(d)]_vars

\* a turn without override whose delta says exclude_agencies=false, on an
\* excluding session: the stored flag is still true
C8_Witness ==
    /\ last.op = "search"
    /\ last.fault = "none"
    /\ last.override = Null
    /\ last.query = Q_rooms
    /\ Get(last.memory, "exclude_agencies") = JBool(TRUE)
    /\ LastAnsweredObject
    /\ Get(LastDelta, "exclude_agencies") = JBool(FALSE)
    /\ Get(index[LastDoc].filters, "exclude_agencies") = JBool(TRUE)

\* C9: when a search request carries a non-null uiOverride, exclude_agencies equals
\* the override in the state that is persisted (when the put succeeds), in the plan
\* that is compiled (when the request gets that far) and in the state and plan that
\* are returned (when the request returns).
C9_OverrideIsAuthoritative ==
    (last.op = "search" /\ last.override # Null) =>
        /\ last.saved => Get(index[LastDoc].filters, "exclude_agencies") = last.override
        /\ last.compiled => ExcludesAgents(last.os_query) = last.override.b
        /\ ~last.raised =>
               /\ Get(last.response.parsed, "exclude_agencies") = last.override
               /\ ExcludesAgents(last.response.opensearch_query) = last.override.b

\* uiOverride=false on an excluding session, with a query text that asks for
\* private sellers only: persisted, compiled and returned say false
C9_Witness ==
    /\ last.op = "search"
    /\ last.override = JBool(FALSE)
    /\ last.query = Q_private
    /\ Get(last.memory, "exclude_agencies") = JBool(TRUE)
    /\ last.saved /\ ~last.raised
    /\ Get(index[LastDoc].filters, "exclude_agencies") = JBool(FALSE)
    /\ ~ExcludesAgents(last.os_query)
    /\ Get(last.response.parsed, "exclude_agencies") = JBool(FALSE)

\* C10: a search, reset or delete issued for one (user_id, session_id) pair never
\* changes or deletes the document stored for a different pair.
C10_SessionIsolation ==
    [][\A q \in Pairs :
          (/\ last'.op \in {"search", "reset", "delete"}
           /\ <<last'.user_id, last'.session_id>> # <<q.user_id, q.session_id>>)
          => index'[doc_id(q.user_id, q.session_id)] = index[doc_id(q.user_id, q.session_id)]]_vars

\* C11: a failure of the session-store write during a search request (non-success
\* status or network error on the put) is not fatal: search returns, and the
\* filters of the response are the freshly merged state.
C11_WriteFailureIsNotFatal ==
    (last.op = "search" /\ last.fault \in {"put_rejected", "put_raises"}) =>
        /\ ~last.raised
        /\ last.engine_calls = 1
        /\ last.response # Null
        /\ last.response.parsed = last.parsed

\* the step is a search turn that finds no prior state: the GET of load_memory
\* fails, or the index holds no document for the pair
SearchWithoutPriorState ==
    /\ last'.op = "search"
    /\ \/ last'.fault = "load"
       \/ index[doc_id(last'.user_id, last'.session_id)] = NoDoc

\* C12: a failure of the session-store read at the start of a search request
\* (non-200 status, absent document, network error) is not fatal: load_memory returns
\* the empty FilterState, the turn is merged as a first turn, and the read failure
\* alone raises nothing.
C12_ReadFailureIsFirstTurn ==
    [][SearchWithoutPriorState =>
          /\ last'.memory = create_empty_memory
          /\ last'.parsed =
                apply_override(parse_query_with_llm(last'.query, create_empty_memory,
                                                    last'.llm).value,
                               last'.override)
          /\ last'.fault \in {"load", "none"} => ~last'.raised]_vars

\* the read fails on a session that has a stored document with filters: the turn
\* starts from the empty state, returns, and its state replaces the stored one
C12_Witness ==
    /\ last.op = "search"
    /\ last.fault = "load"
    /\ last.memory = create_empty_memory
    /\ ~last.raised
    /\ last.response.parsed = last.parsed
    /\ Len(index[LastDoc].query_history) = 2
    /\ index[LastDoc].filters = last.parsed

\* C13: a failure of the search engine (status other than 200 or network error) is
\* fatal for the request: search raises, nothing is returned, and the engine was
\* called exactly once.
C13_EngineFailureIsFatal ==
    (last.op = "search" /\ last.fault = "engine") =>
        /\ last.raised
        /\ last.response = Null
        /\ last.engine_calls = 1

\* the engine fails after the merged state was stored
C13_Witness ==
    /\ last.op = "search"
    /\ last.fault = "engine"
    /\ last.raised
    /\ last.saved
    /\ last.engine_calls = 1
    /\ index[LastDoc].filters = last.parsed

\* the query history stored under a document id (empty when there is no document)
HistoryOf(idx, d) == IF idx[d] = NoDoc THEN <<>> ELSE idx[d].query_history

\* C14: the query history is append-only. Over every search or reset request,
\* store failures included, the entries stored before are kept in their order
\* (up to eviction of the oldest beyond the 50 most recent); a search adds exactly
\* one entry for its utterance, a reset adds none.
C14_HistoryIsAppendOnly ==
    [][/\ last'.op = "search" =>
            HistoryOf(index', doc_id(last'.user_id, last'.session_id)) =
                LastN(Append(HistoryOf(index, doc_id(last'.user_id, last'.session_id)),
                             [q |-> last'.query, ts |-> now']),
                      HISTORY_CAP)
       /\ last'.op = "reset" =>
            HistoryOf(index', doc_id(last'.user_id, last'.session_id)) =
                HistoryOf(index, doc_id(last'.user_id, last'.session_id))]_vars

\* the stored history of the session of HistorySpec
SessionHistory == HistoryOf(index, doc_id(P_a_bc.user_id, P_a_bc.session_id))

\* C15: after any sequence of save_memory calls on a session the stored history
\* has at most 50 entries, and once more than 50 utterances were saved it is
\* exactly the 50 most recent ones in arrival order.
C15_HistoryCap ==
    /\ Len(SessionHistory) <= HISTORY_CAP
    /\ Len(arrived) > HISTORY_CAP => SessionHistory = LastN(arrived, HISTORY_CAP)

\* the document id addressed by the request of the step
NextDoc == doc_id(last'.user_id, last'.session_id)

\* C16: a reset whose put is accepted replaces the stored filters of the session
\* with the empty FilterState, appends no history entry, and leaves the existing
\* query history and created_at unchanged; the search turn that follows a reset
\* of the same session merges from the empty state.
C16_ResetClearsFiltersOnly ==
    [][/\ (last'.op = "reset" /\ last'.saved) =>
            /\ index'[NextDoc] # NoDoc
            /\ index'[NextDoc].filters = create_empty_memory
            /\ HistoryOf(index', NextDoc) = HistoryOf(index, NextDoc)
            /\ index[NextDoc] # NoDoc =>
                  index'[NextDoc].created_at = index[NextDoc].created_at
       /\ (last.op = "reset" /\ last.saved /\ last'.op = "search" /\ NextDoc = LastDoc) =>
            last'.memory = create_empty_memory]_vars

(***************************************************************************)
(* Properties of the compiled plan, stated on CompileSpec                  *)
(***************************************************************************)
Compiled == plan # NoPlan

\* the lists of the compiled plan (a key that is not set stands for no clause)
PlanMust    == plan.query.bool.must
PlanMustNot ==
    IF "must_not" \in DOMAIN plan.query.bool THEN plan.query.bool.must_not ELSE <<>>

\* how often a clause occurs in a list
Occurrences(clauses, c) == Cardinality({i \in 1..Len(clauses) : clauses[i] = c})

\* C17: the must list of the compiled plan is never empty; it is the single
\* match-all clause exactly when no filter field (location, city, transaction,
\* property type, rooms, price, keywords) produced a must clause, and holds no
\* match-all clause otherwise.
C17_MustIsNeverEmpty ==
    Compiled =>
        /\ Len(PlanMust) > 0
        /\ (PlanMust = <<MatchAll>>) <=> (must_clauses(fstate.parsed, fstate.keywords) = <<>>)
        /\ must_clauses(fstate.parsed, fstate.keywords) # <<>> =>
              /\ PlanMust = must_clauses(fstate.parsed, fstate.keywords)
              /\ Occurrences(PlanMust, MatchAll) = 0

\* a state whose only filter field is a location that names no sector number
\* compiles to the match-all clause
C17_Witness ==
    /\ Compiled
    /\ fstate.parsed["location"] = JStr(<<"S","e","c","t","o","r">>)
    /\ IsNull(fstate.parsed["city"])
    /\ PlanMust = <<MatchAll>>

\* a clause on one of the location fields of a listing
IsLocationClause(c) ==
    \/ c.type \in {"term", "match"} /\ c.field \in {"location_2", "location_3"}
    \/ c.type = "bool" /\ \E j \in 1..Len(c.should) :
                              c.should[j].field \in {"location_2", "location_3"}

\* the two-way OR of exact matches on "Sector n" and "Sectorul n"
SectorGroup(n) ==
    [ type |-> "bool",
      should |-> << [type |-> "term", field |-> "location_2",
                     value |-> JStr(<<"S","e","c","t","o","r"," ">> \o IntToStr(n))],
                    [type |-> "term", field |-> "location_2",
                     value |-> JStr(<<"S","e","c","t","o","r","u","l"," ">> \o IntToStr(n))] >>,
      minimum_should_match |-> 1 ]

\* C18: for every sector number n the locations "Sector n", "sector n" and
\* "Sectorul n" compile to the same must clause, the two-way OR of exact matches
\* on "Sector n" and "Sectorul n" with minimum_should_match 1, and to no other
\* location clause.
C18_SectorSpellingInvariant ==
    Compiled =>
        \A n \in SectorNumbers :
            fstate.parsed["location"] \in {JStr(sp \o IntToStr(n)) : sp \in SectorSpellings} =>
                /\ PlanMust[1] = SectorGroup(n)
                /\ \A i \in 2..Len(PlanMust) : ~IsLocationClause(PlanMust[i])

\* "sector 12", written in lower case and with two digits, next to a city
C18_Witness ==
    /\ Compiled
    /\ fstate.parsed["location"] = JStr(<<"s","e","c","t","o","r"," ","1","2">>)
    /\ Truthy(fstate.parsed["city"])
    /\ PlanMust = <<SectorGroup(12), Term("location_1", fstate.parsed["city"])>>

\* the OR-group of the "1 camere" tag and the "Garsoniera" tag
OneRoomGroup ==
    [ type |-> "bool",
      should |-> << [type |-> "term", field |-> "categories", value |-> JStr(<<"1"," ","c","a","m","e","r","e">>)],
                    [type |-> "term", field |-> "categories", value |-> JStr(<<"G","a","r","s","o","n","i","e","r","a">>)] >>,
      minimum_should_match |-> 1 ]

\* the exact match on the tag "n camere"
RoomsTag(n) ==
    [type |-> "term", field |-> "categories", value |-> JStr(IntToStr(n) \o <<" ","c","a","m","e","r","e">>)]

\* every clause a number of rooms can stand for
RoomsClauses == {OneRoomGroup} \cup {RoomsTag(n) : n \in 0..9}

\* the rooms clauses of the compiled must list, in order
PlanRoomsClauses == SelectSeq(PlanMust, LAMBDA c : c \in RoomsClauses)

\* C19: rooms = 1 compiles to exactly one must OR-group matching the "1 camere"
\* tag or the "Garsoniera" tag; rooms = n for n in 2..5 compiles to exactly one
\* exact-match must clause on "n camere"; rooms null compiles to no rooms clause.
C19_RoomsCompilation ==
    Compiled =>
        /\ fstate.parsed["rooms"] = JInt(1) => PlanRoomsClauses = <<OneRoomGroup>>
        /\ \A n \in 2..5 :
              fstate.parsed["rooms"] = JInt(n) => PlanRoomsClauses = <<RoomsTag(n)>>
        /\ IsNull(fstate.parsed["rooms"]) => PlanRoomsClauses = <<>>

\* one room, to rent, with both price bounds
C19_Witness ==
    /\ Compiled
    /\ fstate.parsed["rooms"] = JInt(1)
    /\ PlanMust = << Term("categories", JStr(S_Inchiriere)),
                     OneRoomGroup,
                     Range("price", [gte |-> JInt(300), lte |-> JInt(600)]) >>

\* the features of the compiled state that are WANT
Wanted == {f \in FeatureSet : fstate.parsed["features"][f] = JStr(S_WANT)}

\* the phrase exclusion of the j-th negative phrase of feature f
PhraseExclusion(f, j) ==
    [type |-> "match_phrase", field |-> "description",
     query |-> JStr(FEATURE_PATTERNS[f].negative_patterns[j])]

NegativePhrases ==
    {t \in FeatureSet \X (1..12) : t[2] <= Len(FEATURE_PATTERNS[t[1]].negative_patterns)}

AgencyFlagClause == [type |-> "term", field |-> "is_agent", value |-> JStr(<<"t","r","u","e">>)]

\* the compiled state with every feature unset
WithoutFeatures == Put(fstate.parsed, "features", [f \in FeatureSet |-> Null])

\* C20: the must_not list holds exactly one phrase exclusion for every known
\* negative phrase of every feature that is WANT, plus one exact-match clause on
\* the agency flag if and only if exclude_agencies is true; a feature that is
\* EXCLUDE or unset adds nothing to must_not and nothing to must.
C20_MustNotList ==
    Compiled =>
        /\ \A t \in NegativePhrases :
              Occurrences(PlanMustNot, PhraseExclusion(t[1], t[2])) =
                  IF t[1] \in Wanted THEN 1 ELSE 0
        /\ Occurrences(PlanMustNot, AgencyFlagClause) =
              IF Get(fstate.parsed, "exclude_agencies") = JBool(TRUE) THEN 1 ELSE 0
        /\ Len(PlanMustNot) =
              Cardinality({t \in NegativePhrases : t[1] \in Wanted})
                + Occurrences(PlanMustNot, AgencyFlagClause)
        /\ PlanMust =
              build_opensearch_query(WithoutFeatures, fstate.keywords,
                                     plan.size, plan.from).query.bool.must

\* parking wanted and agencies excluded: three phrase exclusions and the clause
\* on the agency flag, and no must clause
C20_Witness ==
    /\ Compiled
    /\ Wanted = {"parcare"}
    /\ Get(fstate.parsed, "exclude_agencies") = JBool(TRUE)
    /\ Len(PlanMustNot) = 4
    /\ PlanMustNot[4] = AgencyFlagClause
    /\ PlanMust = <<MatchAll>>

\* the features of the compiled state that are WANT or EXCLUDE
WantedOrExcluded ==
    {f \in FeatureSet : fstate.parsed["features"][f] \in {JStr(S_WANT), JStr(S_EXCLUDE)}}

\* the vector-similarity clause over a text
VectorClause(text) ==
    [type |-> "neural", field |-> "listing_vector", query_text |-> JStr(text),
     model_id |-> "settings.embedding_model_id", k |-> 100]

\* a dict without the keys should and minimum_should_match
WithoutShould(bool) == [key \in DOMAIN bool \ {"should", "minimum_should_match"} |-> bool[key]]

\* C21: the compiled plan has exactly one should clause, the vector-similarity
\* clause over the concatenated feature text, if and only if at least one feature
\* is WANT or EXCLUDE, and no should clause otherwise; when present the top-level
\* minimum_should_match is 0, and must and must_not are what they are for the
\* plan compiled without any vector text.
C21_ShouldClause ==
    Compiled =>
        /\ ("should" \in DOMAIN plan.query.bool) <=> (WantedOrExcluded # {})
        /\ ("minimum_should_match" \in DOMAIN plan.query.bool) <=> (WantedOrExcluded # {})
        /\ WantedOrExcluded # {} =>
              /\ plan.query.bool.should =
                    <<VectorClause(Join(neural_boost_texts(fstate.parsed["features"], 1)))>>
              /\ plan.query.bool.minimum_should_match = 0
        /\ WithoutShould(plan.query.bool) =
              bool_query(must_clauses(fstate.parsed, fstate.keywords), <<>>,
                         must_not_clauses(fstate.parsed))

\* only "mobilat" is EXCLUDE: the text is its first three negative phrases, and the
\* plan filters nothing
C21_Witness ==
    /\ Compiled
    /\ WantedOrExcluded = {"mobilat"}
    /\ fstate.parsed["features"]["mobilat"] = JStr(S_EXCLUDE)
    /\ plan.query.bool.should = <<VectorClause(<<"n","e","m","o","b","i","l","a","t"," ","n","e","u","t","i","l","a","t"," ","f","a","r","a"," ","m","o","b","i","l","a">>)>>
    /\ plan.query.bool.minimum_should_match = 0
    /\ PlanMust = <<MatchAll>>
    /\ PlanMustNot = <<>>

\* the OR-group of a keyword: a title match and a description match
KeywordGroup(kw) ==
    [ type |-> "bool",
      should |-> << [type |-> "match", field |-> "driver_title", query |-> kw, boost |-> "2.0"],
                    [type |-> "match", field |-> "description", query |-> kw, boost |-> "1.0"] >>,
      minimum_should_match |-> 1 ]

\* a must clause that is an OR-group of two matches, the first on the title
IsKeywordGroup(c) ==
    /\ c.type = "bool"
    /\ Len(c.should) = 2
    /\ c.should[1].type = "match"
    /\ c.should[1].field = "driver_title"

\* C22: for a state with k keywords the must list holds exactly k keyword
\* OR-groups, one per keyword, each with minimum_should_match 1 over a title match
\* and a description match of that keyword.
C22_OneGroupPerKeyword ==
    Compiled =>
        /\ \A kw \in fstate.parsed["keywords"] : Occurrences(PlanMust, KeywordGroup(kw)) = 1
        /\ Cardinality({i \in 1..Len(PlanMust) : IsKeywordGroup(PlanMust[i])}) =
              Cardinality(fstate.parsed["keywords"])

\* two keywords next to a property type
C22_Witness ==
    /\ Compiled
    /\ fstate.keywords = <<JStr(<<"m","o","d","e","r","n">>), JStr(<<"b","a","l","c","o","n">>)>>
    /\ PlanMust = << Term("categories", JStr(S_Apartamente)),
                     KeywordGroup(JStr(<<"m","o","d","e","r","n">>)),
                     KeywordGroup(JStr(<<"b","a","l","c","o","n">>)) >>

(***************************************************************************)
(* Properties of the score, stated on FormatSpec                           *)
(***************************************************************************)
Formatted == card # NoCard

\* C23: for every raw score and every max_score the score of format_result is
\* an integer in 0..100, and it is 0 when max_score <= 0.
C23_ScoreRange ==
    Formatted =>
        /\ card.score \in 0..100
        /\ Tenths(scoring.max_score) <= 0 => card.score = 0

\* a hit that scores above the max_score of its response is cut to 100
C23_Witness ==
    /\ Formatted
    /\ scoring.hit = [x \in {"_score"} |-> JFloat(45)]
    /\ scoring.max_score = JFloat(30)
    /\ card.score = 100

\* C24: for every raw score and every positive max_score the score of
\* format_result is round(raw_score / max_score * 100), to the nearest integer,
\* clamped to 0..100.
C24_ScoreIsRounded ==
    (Formatted /\ Tenths(scoring.max_score) > 0) =>
        card.score = Clamp(Round(Tenths(raw_score(scoring.hit)) * 100,
                                 Tenths(scoring.max_score)))

\* a price of a FilterState is null or a non-negative integer
IsPrice(v) == IsNull(v) \/ (v.k = "int" /\ v.n >= 0)

\* C25: in every FilterState reachable from the empty state by merges, price_min
\* and price_max are each null or a non-negative integer, whatever numbers the
\* deltas carried.
C25_PricesAreNonNegative ==
    /\ IsPrice(ret.value["price_min"])
    /\ IsPrice(ret.value["price_max"])

\* the last request was a search that returned
Succeeded == last.op = "search" /\ ~last.raised

\* C26: for every successful search the compiled plan's size and from are the
\* request's size and offset, and the plan echoed to the caller is the plan that
\* was sent to the search engine, compiled from the merged state of the same
\* response.
C26_PlanIsEchoed ==
    Succeeded =>
        /\ last.response.opensearch_query.size = last.size
        /\ last.response.opensearch_query.from = last.offset
        /\ last.engine_calls = 1
        /\ last.response.opensearch_query = last.os_query
        /\ last.os_query =
              build_opensearch_query(last.response.parsed,
                                     ListOf(last.response.parsed["keywords"]),
                                     last.size, last.offset)

\* the third page of ten is asked for on a session that has stored keywords
C26_Witness ==
    /\ Succeeded
    /\ last.size = 10
    /\ last.offset = 20
    /\ last.memory["keywords"] # {}
    /\ last.response.opensearch_query.from = 20
    /\ last.response.opensearch_query.size = 10
    /\ Len(last.response.opensearch_query.query.bool.must) > 0

(***************************************************************************)
(* Properties of overlapping requests, stated on OverlapSpec               *)
(***************************************************************************)
\* the request whose put the store accepted last
LastWriter == writes[Len(writes)]

Finished == \A p \in Procs : pc[p] \in {"returned", "raised"}

\* C27: when two search requests for one session key overlap, the FilterState in
\* the store is exactly the merged state computed by the request whose write
\* happened last, never a mixture of the two merged states; as long as no write
\* was accepted the store is as it was.
C27_LastWriteWins ==
    /\ writes # <<>> =>
          /\ index[SessionKey] # NoDoc
          /\ index[SessionKey].filters = local[LastWriter].parsed
    /\ writes = <<>> => index[SessionKey] \in StoredBefore

\* both requests loaded the stored state, both wrote, the second one last: the
\* price the first request merged is not in the store
C27_Witness ==
    /\ Finished
    /\ writes = <<1, 2>>
    /\ local[1].parsed["price_min"] = JInt(600)
    /\ local[2].memory = StoredSession.filters
    /\ local[2].parsed["rooms"] = JInt(2)
    /\ index[SessionKey].filters = local[2].parsed
    /\ IsNull(index[SessionKey].filters["price_min"])

\* the request called the search engine
CalledEngine(p) == local[p].engine # "none"

\* the last entry of the stored history
LastEntry == index[SessionKey].query_history[Len(index[SessionKey].query_history)]

\* C28: the steps of a search request happen in the order load, merge, persist,
\* compile, execute: the put of the merged state returned before the engine is
\* called, and when the store accepted it (and no other request wrote since), a
\* request that fails in the engine has advanced the stored FilterState and
\* history by its turn.
C28_PersistBeforeExecute ==
    \A p \in Procs :
        /\ pc[p] = "execute" \/ CalledEngine(p) =>
              /\ local[p].put \in {"ok", "rejected"}
              /\ local[p].doc.filters = local[p].parsed
        /\ (CalledEngine(p) /\ local[p].put = "ok") => \E i \in 1..Len(writes) : writes[i] = p
        /\ (local[p].engine = "failed" /\ local[p].put = "ok" /\ LastWriter = p) =>
              /\ index[SessionKey] # NoDoc
              /\ index[SessionKey].filters = local[p].parsed
              /\ LastEntry = [q |-> Utterance[p], ts |-> local[p].doc.updated_at]
        /\ CalledEngine(p) =>
              local[p].os_query =
                  build_opensearch_query(local[p].parsed, ListOf(local[p].parsed["keywords"]),
                                         DEFAULT_SIZE, DEFAULT_OFFSET)

\* C28 as stated: every request that fails in the engine has advanced the stored
\* session by its turn.
C28_EngineFailureAfterAdvance ==
    \A p \in Procs :
        local[p].engine = "failed" => \E i \in 1..Len(writes) : writes[i] = p

\* the first request fails in the engine after its put was accepted: the store
\* holds its merged state and its utterance
C28_Witness ==
    /\ pc[1] = "raised"
    /\ local[1].engine = "failed"
    /\ local[1].put = "ok"
    /\ writes = <<1>>
    /\ index[SessionKey].filters = local[1].parsed
    /\ local[1].parsed["price_min"] = JInt(600)
    /\ LastEntry.q = Q_rooms

\* the location clauses of the compiled must list, in order
PlanLocationClauses == SelectSeq(PlanMust, IsLocationClause)

\* a two-way OR of exact matches on location_2
IsSectorGroup(c) ==
    /\ c.type = "bool"
    /\ Len(c.should) = 2
    /\ \A j \in 1..2 : c.should[j].type = "term" /\ c.should[j].field = "location_2"

\* the four-way boosted OR-group of a location: exact, fuzzy, title, description
FourWayGroup(location) ==
    [ type |-> "bool",
      should |-> << [type |-> "term", field |-> "location_3", value |-> location,
                     boost |-> "3.0"],
                    [type |-> "match", field |-> "location_3", query |-> location,
                     fuzziness |-> "AUTO", boost |-> "2.5"],
                    [type |-> "match", field |-> "driver_title", query |-> location,
                     boost |-> "2.0"],
                    [type |-> "match", field |-> "description", query |-> location,
                     boost |-> "1.0"] >>,
      minimum_should_match |-> 1 ]

\* C29: for every FilterState whose location is a non-empty string the must list
\* holds exactly one location clause: the two-spelling sector OR-group when the
\* location contains "sector", the four-way boosted OR-group otherwise; a
\* non-empty location is never dropped from the plan.
C29_LocationIsNeverDropped ==
    (Compiled /\ Truthy(fstate.parsed["location"])) =>
        /\ Len(PlanLocationClauses) = 1
        /\ IF Contains(Lower(fstate.parsed["location"].s), <<"s","e","c","t","o","r">>)
           THEN IsSectorGroup(PlanLocationClauses[1])
           ELSE PlanLocationClauses[1] = FourWayGroup(fstate.parsed["location"])

\* the text process_once embeds for the document
ListingText(id) == build_text_for_doc(listings[id].src)

\* the pass has written the document
Written(id) == id \in DOMAIN pass.pit /\ listings[id] # pass.pit[id]

\* C30: in one pass of the embedding backfill, every document the pass writes
\* with embedding_status success receives the vector the model returned for
\* its own title and description text, and every document with empty text
\* that the pass writes after the model answered (status other than failed)
\* is written with status fatal and no vector, whatever the mix of empty and
\* non-empty texts in a page
C30_VectorsBelongToTheirDocuments ==
    \A id \in DOMAIN listings :
        (Written(id) /\ listings[id].embedding_status # "failed") =>
            /\ listings[id].embedding_status = "success" =>
                   listings[id].listing_vector = Embedding(ListingText(id))
            /\ ListingText(id) = <<>> =>
                   /\ listings[id].embedding_status = "fatal"
                   /\ listings[id].listing_vector = NoVector

=============================================================================
